---- MODULE Spec2Model ----
(***************************************************************************)
(* Model of the Telegram bridge service (python/tg_service).               *)
(*                                                                         *)
(*   - the sync pipeline of service.py (enqueue_sync_message, the drain    *)
(*     workers, the overflow-drain loop), persistent_queue.py and the      *)
(*     delivery routine of convex_sync.py;                                 *)
(*   - the RPC dispatcher of rpc.py (read loop, run_request,               *)
(*     process_request);                                                   *)
(*   - the sessions of service.py (login, verify_code,                     *)
(*     connect_with_session, disconnect, the policy-refresh task, the      *)
(*     liveness watch and its reconnection);                               *)
(*   - the event filter: get_account_message_filters and                   *)
(*     should_handle_new_message of service.py, handle_new_message of      *)
(*     handlers.py, get_peer_info and get_sender_info of mappers.py;       *)
(*   - the shutdown sequence at the end of handle_rpc and                  *)
(*     TelegramService.shutdown;                                           *)
(*   - the stdout writer of protocol.py.                                   *)
(*                                                                         *)
(* asyncio runs every coroutine on one thread: a coroutine is interrupted  *)
(* only at an await, so each action below is the code between two awaits.  *)
(***************************************************************************)
EXTENDS Integers, Sequences, FiniteSets, TLC

\* ------------------------------------------------------------------ bounds

\* Number of lines stdin delivers in one run.
MaxLines == 3

\* asyncio.Semaphore(32) in rpc.py:84, scaled down.
SemaphoreLimit == 2

\* asyncio.Queue(maxsize=1000) in rpc.py:14, scaled down.
InputQueueMaxSize == 2

\* Number of lines handed to write_line in one run.
MaxOutLines == 5

\* queue.Queue(maxsize=10000) in protocol.py:14, scaled down.
WriterQueueMaxSize == 2

\* len(buffer) >= 100 in protocol.py:64, scaled down.
FlushBatch == 2

\* Number of payloads the event handlers enqueue in one run.
MaxPayloads == 3

\* asyncio.Queue(maxsize=2000) in service.py:246, scaled down.
SyncQueueMaxSize == 1

\* range(4) drain workers in service.py:249.
SyncWorkerCount == 4

\* max_retries in convex_sync.py:51.
max_retries == 3

PayloadIds == 1..MaxPayloads
Workers == 1..SyncWorkerCount

\* The reserved system-notices peer, and one ordinary peer.
SystemPeer == "777000"
PeerIds == {SystemPeer, "1001"}

\* What http_client.post can come back with: status codes, a timeout
\* (httpx.TimeoutException) or any other exception.
HttpOutcomes == {"200", "204", "400", "500", "timeout", "error"}
ServerErrors == {"500"}

\* A SyncPayload: the fields of the dict built in handlers.py that the
\* pipeline itself reads (telegram_id identifies the payload).
Payload(p, peer) == [telegram_id |-> p, peer_id |-> peer]

\* The None sentinel shutdown puts on the queue.
NoneItem == [telegram_id |-> 0, peer_id |-> "None"]

VARIABLES
    convex_url,          \* TRUE iff a remote endpoint is configured
    sync_queue_made,     \* self._sync_queue is not None
    sync_queue,          \* contents of self._sync_queue
    sync_worker,         \* self._sync_worker_tasks: worker -> [pc, item, attempt]
    pq_worker_task,      \* self._persistent_queue_worker_task is not None
    pq_rows,             \* rows of the queue table, ordered by id: <<[id, payload]>>
    pq_lastrowid,        \* AUTOINCREMENT counter of the queue table
    notified,            \* the notifications written by the latest step
    next_payload,        \* id of the next payload the handlers will enqueue
    payload_of,          \* history: payload id -> the payload as it was enqueued
    enqueue_ret,         \* history: payload id -> what enqueue_sync_message returned
    stored,              \* history: payload ids ever written to the Overflow Store
    readmitted,          \* history: payload ids put back on the queue by the drain loop
    handed,              \* history: payload id -> times handed to _sync_message
    transmitted          \* history: payload ids ever POSTed to the ingestion API

VARIABLES
    reader_pc,           \* stdin_reader thread: "read" or "done"
    lines_read,          \* number of lines stdin_reader has taken from stdin
    input_queue,         \* input_queue: lines handed to the loop, then None
    main_pc,             \* the read loop of handle_rpc: "loop", "gather", "closing"
    task,                \* line number -> [pc, id] of its run_request task
    in_flight,           \* in_flight: the tasks not yet done
    sem_value,           \* semaphore._value
    sem_waiters,         \* semaphore._waiters, first come first served
    rpc_step,            \* the latest step: the line it parsed, whether it called a
                         \* service operation, the responses it wrote
    form_of,             \* history: line number -> form of the line
    resp_count,          \* history: line number -> responses written for it
    op_calls,            \* history: line number -> service operations invoked for it
    releases             \* history: line number -> semaphore.release() calls of its task

rpcVars == <<reader_pc, lines_read, input_queue, main_pc, task, in_flight, sem_value,
             sem_waiters, rpc_step, form_of, resp_count, op_calls, releases>>

syncVars == <<convex_url, sync_queue_made, sync_queue, sync_worker, pq_worker_task,
              pq_rows, pq_lastrowid, notified, next_payload, payload_of, enqueue_ret,
              stored, readmitted, handed, transmitted>>

VARIABLES
    clients,             \* self.clients: account -> handle (NoHandle: no entry)
    session_strings,     \* self._session_strings: account -> handle whose credential it is
    pending_logins,      \* self.pending_logins: account -> handle of the pending login
    account_settings,    \* self._account_settings: account -> policy
    refresh_error_ts,    \* self._last_settings_refresh_error_ts: account -> time
    refresh_task,        \* self._account_settings_refresh_tasks: account -> [pc]
    watch_task,          \* self._disconnect_watch_tasks: account -> [pc, client, attempt, ...]
    handlers_registered, \* self._handlers_registered
    connected,           \* handle -> client.is_connected()
    subscribed,          \* handle -> event handlers added to it by register_handlers
    next_handle,         \* TelegramClient objects constructed so far
    call,                \* the service operations in progress: slot -> [op, pc, ...]
    now,                 \* time.monotonic(), in seconds
    session_step,        \* the latest step: operation, account, result, notifications
    exhausted,           \* history: accounts whose reconnection ran out of attempts
    expired              \* history: accounts whose reconnection found them unauthorized

sessionVars == <<clients, session_strings, pending_logins, account_settings,
                 refresh_error_ts, refresh_task, watch_task, handlers_registered,
                 connected, subscribed, next_handle, call, now, session_step,
                 exhausted, expired>>

VARIABLES
    settings,            \* the entry of the account in self._account_settings (a dict)
    filter_step          \* the latest event: what the hook and the handler made of it

filterVars == <<settings, filter_step>>

VARIABLES
    shutdown_sessions,   \* history: self.clients as it was when shutdown began
    orphans              \* history: accounts whose running task shutdown dropped
                         \* from its dict without cancelling it

shutdownVars == <<shutdown_sessions, orphans>>

VARIABLES
    sentinels_left       \* shutdown's for loop over the drain workers: the
                         \* sentinels it has still to put on the memory queue

drainVars == <<sentinels_left>>

VARIABLES
    writer_queue,        \* _StdoutWriter._queue: lines, then the None of close
    buffer,              \* buffer of _StdoutWriter._run
    stdout,              \* the lines written to sys.stdout, in order
    running,             \* _StdoutWriter._running
    writer_pc,           \* the writer thread: "run", "done" or "killed"
    close_pc,            \* shutdown_stdout_writer: "open", "put", "join",
                         \* "returned", and "exited" once the process has ended
    next_line,           \* number of the next line handed to write_line
    accepted,            \* history: the lines write_line put on the queue, in order
    dropped              \* history: the lines write_line dropped

outputVars == <<writer_queue, buffer, stdout, running, writer_pc, close_pc, next_line,
                accepted, dropped>>

vars == <<syncVars, rpcVars, sessionVars, filterVars, shutdownVars, drainVars,
          outputVars>>

\* What the sync pipeline leaves alone, what the dispatcher leaves alone, and
\* what the session operations and tasks leave alone.
nonSyncVars == <<rpcVars, sessionVars, filterVars, shutdownVars, drainVars, outputVars>>
nonRpcVars == <<syncVars, sessionVars, filterVars, shutdownVars, drainVars, outputVars>>
nonSessionVars == <<syncVars, rpcVars, filterVars, shutdownVars, drainVars, outputVars>>
nonFilterVars == <<syncVars, rpcVars, sessionVars, shutdownVars, drainVars, outputVars>>
nonOutputVars == <<syncVars, rpcVars, sessionVars, filterVars, shutdownVars, drainVars>>

\* ------------------------------------------------------- persistent_queue.py

\* json.dumps(item, separators=(",", ":")): the payload as text.
json_dumps(item) == [text |-> <<item.telegram_id, item.peer_id>>]

\* json.loads(payload): the dict back from its text.
json_loads(row_payload) ==
    [telegram_id |-> row_payload.text[1], peer_id |-> row_payload.text[2]]

\* PersistentQueue.write: INSERT with the next AUTOINCREMENT id.
PersistentQueue_write(item) ==
    /\ pq_lastrowid' = pq_lastrowid + 1
    /\ pq_rows' = Append(pq_rows, [id |-> pq_lastrowid + 1, payload |-> json_dumps(item)])

\* PersistentQueue.read_all: SELECT ... ORDER BY id ASC, each row parsed.
PersistentQueue_read_all ==
    [i \in 1..Len(pq_rows) |-> <<pq_rows[i].id, json_loads(pq_rows[i].payload)>>]

\* PersistentQueue.delete: DELETE FROM queue WHERE id = ?.
PersistentQueue_delete(row_id) ==
    pq_rows' = SelectSeq(pq_rows, LAMBDA r : r.id # row_id)

\* ------------------------------------------------------------ asyncio.Queue

\* Queue.full(): maxsize reached.
QueueFull(q) == Len(q) >= SyncQueueMaxSize

\* ------------------------------------------------------------- service.py

IdleWorker == [pc |-> "none", item |-> NoneItem, attempt |-> 0]

ensure_sync_workers_NoDrainLoop ==
    IF ~convex_url
    THEN UNCHANGED <<sync_queue_made, sync_worker, pq_worker_task>>
    ELSE IF sync_queue_made /\ \E w \in Workers : sync_worker[w].pc # "none"
    THEN UNCHANGED <<sync_queue_made, sync_worker, pq_worker_task>>
    ELSE /\ sync_queue_made' = TRUE
         /\ sync_worker' =
              IF \A w \in Workers : sync_worker[w].pc = "none"
              THEN [w \in Workers |-> [pc |-> "get", item |-> NoneItem, attempt |-> 0]]
              ELSE sync_worker
         /\ UNCHANGED pq_worker_task

\* ensure_sync_workers: creates the queue, the drain workers and the
\* overflow-drain loop, each only if it does not exist yet.
ensure_sync_workers ==
    IF ~convex_url
    THEN UNCHANGED <<sync_queue_made, sync_worker, pq_worker_task>>
    ELSE IF sync_queue_made /\ \E w \in Workers : sync_worker[w].pc # "none"
    THEN UNCHANGED <<sync_queue_made, sync_worker, pq_worker_task>>
    ELSE /\ sync_queue_made' = TRUE
         /\ sync_worker' =
              IF \A w \in Workers : sync_worker[w].pc = "none"
              THEN [w \in Workers |-> [pc |-> "get", item |-> NoneItem, attempt |-> 0]]
              ELSE sync_worker
         /\ pq_worker_task' = TRUE

\* The "Queue full" notice, written at most once per 5 seconds: elapsed says
\* whether 5 seconds have passed since the last one.
QueueFullNotice(elapsed) ==
    IF elapsed THEN <<"log: Queue full, buffering to disk">> ELSE <<>>

EnqueueOverflow_NoWrite(payload) ==
    /\ UNCHANGED <<sync_queue, pq_rows, pq_lastrowid, stored>>
    /\ \E elapsed \in BOOLEAN : notified' = QueueFullNotice(elapsed)
    /\ enqueue_ret' = [enqueue_ret EXCEPT ![payload.telegram_id] = "True"]

\* The except asyncio.QueueFull branch of enqueue_sync_message.
EnqueueOverflow(payload) ==
    /\ PersistentQueue_write(payload)
    /\ stored' = stored \cup {payload.telegram_id}
    /\ \E elapsed \in BOOLEAN : notified' = QueueFullNotice(elapsed)
    /\ enqueue_ret' = [enqueue_ret EXCEPT ![payload.telegram_id] = "True"]
    /\ UNCHANGED sync_queue

enqueue_sync_message_StoresUnconfigured(payload) ==
    /\ ensure_sync_workers
    /\ IF ~sync_queue_made'
       THEN EnqueueOverflow(payload)
       ELSE IF ~QueueFull(sync_queue)
       THEN /\ sync_queue' = Append(sync_queue, payload)
            /\ enqueue_ret' = [enqueue_ret EXCEPT ![payload.telegram_id] = "True"]
            /\ notified' = <<>>
            /\ UNCHANGED <<pq_rows, pq_lastrowid, stored>>
       ELSE EnqueueOverflow(payload)

\* enqueue_sync_message(payload), called by handle_new_message.
enqueue_sync_message(payload) ==
    /\ ensure_sync_workers
    /\ IF ~sync_queue_made'
       THEN /\ enqueue_ret' = [enqueue_ret EXCEPT ![payload.telegram_id] = "False"]
            /\ notified' = <<>>
            /\ UNCHANGED <<sync_queue, pq_rows, pq_lastrowid, stored>>
       ELSE IF ~QueueFull(sync_queue)
       THEN /\ sync_queue' = Append(sync_queue, payload)
            /\ enqueue_ret' = [enqueue_ret EXCEPT ![payload.telegram_id] = "True"]
            /\ notified' = <<>>
            /\ UNCHANGED <<pq_rows, pq_lastrowid, stored>>
       ELSE EnqueueOverflow(payload)

\* One event accepted by the filters of handle_new_message.
Enqueue ==
    /\ next_payload <= MaxPayloads
    /\ \E peer \in PeerIds :
          /\ enqueue_sync_message(Payload(next_payload, peer))
          /\ payload_of' = [payload_of EXCEPT ![next_payload] = Payload(next_payload, peer)]
    /\ next_payload' = next_payload + 1
    /\ UNCHANGED <<convex_url, readmitted, handed, transmitted>>
    /\ UNCHANGED nonSyncVars

PersistentQueueReadmit_NoDelete(filename, payload) ==
    /\ sync_queue' = Append(sync_queue, payload)
    /\ readmitted' = readmitted \cup {payload.telegram_id}
    /\ UNCHANGED pq_rows

\* One iteration of _persistent_queue_worker whose put_nowait succeeds: the
\* entry is deleted right after, with no await in between.
PersistentQueueReadmit(filename, payload) ==
    /\ sync_queue' = Append(sync_queue, payload)
    /\ PersistentQueue_delete(filename)
    /\ readmitted' = readmitted \cup {payload.telegram_id}

PersistentQueueFull_Delete ==
    /\ PersistentQueue_delete(PersistentQueue_read_all[1][1])
    /\ UNCHANGED <<sync_queue, readmitted>>

\* One iteration of _persistent_queue_worker that finds the queue full
\* (except asyncio.QueueFull: sleep and retry).
PersistentQueueFull ==
    UNCHANGED <<sync_queue, pq_rows, readmitted>>

\* One iteration of the while True loop of _persistent_queue_worker.
PersistentQueueWorker ==
    /\ pq_worker_task
    /\ IF ~sync_queue_made \/ Len(PersistentQueue_read_all) = 0
       THEN UNCHANGED <<sync_queue, pq_rows, readmitted>>
       ELSE LET filename == PersistentQueue_read_all[1][1]
                payload == PersistentQueue_read_all[1][2]
            IN  IF ~QueueFull(sync_queue)
                THEN PersistentQueueReadmit(filename, payload)
                ELSE PersistentQueueFull
    /\ notified' = <<>>
    /\ UNCHANGED <<convex_url, sync_queue_made, sync_worker, pq_worker_task, pq_lastrowid,
                   next_payload, payload_of, enqueue_ret, stored, handed, transmitted>>
    /\ UNCHANGED nonSyncVars

\* -------------------------------------------------------- convex_sync.py

FilterNone(messages) == messages

\* The filter loop of sync_messages: drops the system-notices peer.
Filtered(messages) == SelectSeq(messages, LAMBDA msg : msg.peer_id # SystemPeer)

\* ------------------------------------------------------- _sync_worker

\* await self._sync_queue.get(), then _sync_message(**item) up to its first
\* await: the filter, and the first POST if anything is left to send.
WorkerGet(w) ==
    /\ sync_worker[w].pc = "get"
    /\ sync_queue # <<>>
    /\ LET item == Head(sync_queue)
           filtered == Filtered(<<item>>)
       IN  /\ sync_queue' = Tail(sync_queue)
           /\ IF item = NoneItem
              THEN /\ sync_worker' = [sync_worker EXCEPT ![w] = [pc |-> "exit", item |-> NoneItem, attempt |-> 0]]
                   /\ UNCHANGED <<handed, transmitted>>
              ELSE /\ handed' = [handed EXCEPT ![item.telegram_id] = @ + 1]
                   /\ IF ~convex_url \/ Len(filtered) = 0
                      THEN UNCHANGED <<sync_worker, transmitted>>
                      ELSE /\ sync_worker' = [sync_worker EXCEPT ![w] = [pc |-> "post", item |-> item, attempt |-> 0]]
                           /\ transmitted' = transmitted \cup {filtered[i].telegram_id : i \in 1..Len(filtered)}
    /\ notified' = <<>>
    /\ UNCHANGED <<convex_url, sync_queue_made, pq_worker_task, pq_rows, pq_lastrowid,
                   next_payload, payload_of, enqueue_ret, stored, readmitted>>
    /\ UNCHANGED nonSyncVars

\* The response to one POST of sync_messages: return, retry or give up.
WorkerResponse(w, outcome) ==
    /\ sync_worker[w].pc = "post"
    /\ LET attempt == sync_worker[w].attempt
           retry == outcome \in (ServerErrors \cup {"timeout"}) /\ attempt < max_retries - 1
       IN  /\ sync_worker' = [sync_worker EXCEPT ![w] =
                  IF retry THEN [@ EXCEPT !.attempt = attempt + 1]
                           ELSE [pc |-> "get", item |-> NoneItem, attempt |-> 0]]
           /\ notified' =
                  IF outcome = "200" THEN <<>>
                  ELSE IF retry THEN <<>>
                  ELSE IF outcome = "timeout" THEN <<"error: Convex timeout after retries">>
                  ELSE IF outcome = "error" THEN <<"error: Sync error">>
                  ELSE <<"error: Convex error">>
    /\ UNCHANGED <<convex_url, sync_queue_made, sync_queue, pq_worker_task, pq_rows,
                   pq_lastrowid, next_payload, payload_of, enqueue_ret, stored, readmitted, handed,
                   transmitted>>
    /\ UNCHANGED nonSyncVars

\* ------------------------------------------------------------------ rpc.py

\* The ids a request can carry; NullId is JSON null, and what request.get("id")
\* gives for a request without one.
NullId == "null"
RequestIds == {"7", NullId}

\* The methods process_request knows, and one it does not.
ServiceMethods == {"login", "verify_code", "connect_with_session", "disconnect",
                   "get_dialogs", "fetch_messages", "send_message"}
RecognizedMethods == ServiceMethods \cup {"ping"}
Methods == RecognizedMethods \cup {"bogus"}

\* A non-empty input line: text that is not JSON, JSON that is not an object
\* (an array), or a JSON object with a method and an id.
NoLine == [form |-> "none", method |-> "none", id |-> NullId]
Lines ==
    {[form |-> "garbage", method |-> "none", id |-> NullId],
     [form |-> "array", method |-> "none", id |-> NullId]}
    \cup {[form |-> "object", method |-> m, id |-> i] : m \in Methods, i \in RequestIds}

\* JSON-RPC error codes of process_request; NoError marks a result response.
NoError == 0
MethodNotFound == 0 - 32601
InternalError == 0 - 32000
ParseError == 0 - 32700

\* The response dict handed to write_jsonrpc_message.
Response(id, code) == [id |-> id, error |-> code]

\* What a service operation can raise (verify_code's ValueError, the KeyError
\* of a del, an error of the protocol library), each with its message;
\* NoException stands for an operation that returned.
NoException == [type |-> "none", message |-> ""]
Exceptions ==
    {[type |-> "ValueError", message |-> "No pending login for this account"],
     [type |-> "RPCError", message |-> "FLOOD_WAIT"]}

\* str(e)
str(e) == e.message

\* The error dict of an error response.
ErrorResponse(id, code, message) == [id |-> id, error |-> code, message |-> message]

OperationResponse_Uncaught(id, e) ==
    IF e = NoException THEN <<Response(id, NoError)>> ELSE <<>>

\* What process_request writes when the awaited operation has ended: the
\* result, or in the except Exception branch the error with str(e).
OperationResponse(id, e) ==
    IF e = NoException THEN <<Response(id, NoError)>>
    ELSE <<ErrorResponse(id, InternalError, str(e))>>

\* What a step that runs no process_request code leaves in rpc_step.
NoStep ==
    [req |-> 0, line |-> NoLine, written |-> <<>>, called |-> FALSE, raised |-> NoException]

LineNumbers == 1..MaxLines
NoTask == [pc |-> "none", id |-> NullId]

\* The None that stdin_reader puts at end of input.
EofItem == [req |-> 0, text |-> "None"]

SemLocked_Never(value, waiters) == FALSE

\* Semaphore.locked(): no free slot, or somebody is already waiting.
SemLocked(value, waiters) == value = 0 \/ waiters # <<>>

SemRelease_NoWakeUp(value, waiters) ==
    [value |-> value + 1, waiters |-> waiters, woken |-> 0]

\* Semaphore.release(): the slot goes to the first waiter if there is one
\* (woken), else back to the counter.
SemRelease(value, waiters) ==
    IF waiters = <<>>
    THEN [value |-> value + 1, waiters |-> waiters, woken |-> 0]
    ELSE [value |-> value, waiters |-> Tail(waiters), woken |-> Head(waiters)]

\* The end of run_request for line r, holding a slot of a semaphore whose
\* counter is value: the finally clause releases the slot, the task ends in
\* state pc ("done", or "failed" when an exception left process_request) and
\* its done callback takes it out of in_flight.
Finish(r, pc, value) ==
    LET rel == SemRelease(value, sem_waiters)
    IN  /\ sem_value' = rel.value
        /\ sem_waiters' = rel.waiters
        /\ task' = [q \in LineNumbers |->
                       IF q = r THEN [pc |-> pc, id |-> NullId]
                       ELSE IF q = rel.woken THEN [task[q] EXCEPT !.pc = "acquired"]
                       ELSE task[q]]
        /\ releases' = [releases EXCEPT ![r] = @ + 1]
        /\ in_flight' = in_flight \ {r}

\* json.loads(line) followed by request.get(...): "JSONDecodeError" for text
\* that is not JSON, "AttributeError" for JSON that is not an object, else "ok".
ParseLine(line) ==
    IF line.form = "garbage" THEN "JSONDecodeError"
    ELSE IF line.form = "array" THEN "AttributeError"
    ELSE "ok"

ParseErrorResponse_InternalError == Response(NullId, InternalError)

\* The except json.JSONDecodeError branch of process_request.
ParseErrorResponse == Response(NullId, ParseError)

Dispatch_NoElse(method) ==
    IF method = "ping" THEN "ping" ELSE "service"

\* The if/elif chain of process_request.
Dispatch(method) ==
    IF method = "login" THEN "service"
    ELSE IF method = "verify_code" THEN "service"
    ELSE IF method = "connect_with_session" THEN "service"
    ELSE IF method = "disconnect" THEN "service"
    ELSE IF method = "get_dialogs" THEN "service"
    ELSE IF method = "fetch_messages" THEN "service"
    ELSE IF method = "send_message" THEN "service"
    ELSE IF method = "ping" THEN "ping"
    ELSE "not_found"

\* process_request(line) up to its first await, run by the task of line r,
\* which holds a slot of the semaphore; value is the semaphore's counter.
\* What the line says is input: it is drawn when the line is first looked at.
ProcessRequest(r, line, value) ==
    /\ form_of' = [form_of EXCEPT ![r] = line.form]
    /\ IF ParseLine(line) = "JSONDecodeError"
       THEN /\ rpc_step' = [req |-> r, line |-> line, called |-> FALSE, raised |-> NoException,
                            written |-> <<ParseErrorResponse>>]
            /\ resp_count' = [resp_count EXCEPT ![r] = @ + 1]
            /\ Finish(r, "done", value)
            /\ UNCHANGED op_calls
       ELSE IF ParseLine(line) = "AttributeError"
       THEN /\ rpc_step' = [req |-> r, line |-> line, called |-> FALSE, raised |-> NoException, written |-> <<>>]
            /\ Finish(r, "failed", value)
            /\ UNCHANGED <<resp_count, op_calls>>
       ELSE IF Dispatch(line.method) = "service"
       THEN /\ rpc_step' = [req |-> r, line |-> line, called |-> TRUE, raised |-> NoException, written |-> <<>>]
            /\ op_calls' = [op_calls EXCEPT ![r] = @ + 1]
            /\ task' = [task EXCEPT ![r] = [pc |-> "running", id |-> line.id]]
            /\ sem_value' = value
            /\ UNCHANGED <<resp_count, sem_waiters, releases, in_flight>>
       ELSE /\ rpc_step' = [req |-> r, line |-> line, called |-> FALSE, raised |-> NoException,
                            written |-> <<Response(line.id,
                                IF Dispatch(line.method) = "ping" THEN NoError
                                                                  ELSE MethodNotFound)>>]
            /\ resp_count' = [resp_count EXCEPT ![r] = @ + 1]
            /\ Finish(r, "done", value)
            /\ UNCHANGED op_calls

\* stdin_reader: one line of stdin, stripped, put on input_queue (the put
\* waits while the queue is full).
ReadLine ==
    /\ reader_pc = "read"
    /\ lines_read < MaxLines
    /\ Len(input_queue) < InputQueueMaxSize
    /\ \E text \in {"", "line"} :
          input_queue' = Append(input_queue, [req |-> lines_read + 1, text |-> text])
    /\ lines_read' = lines_read + 1
    /\ rpc_step' = NoStep
    /\ UNCHANGED <<reader_pc, main_pc, task, in_flight, sem_value, sem_waiters, form_of,
                   resp_count, op_calls, releases>>
    /\ UNCHANGED nonRpcVars

\* stdin_reader at end of input: the finally clause puts None.
ReadEof ==
    /\ reader_pc = "read"
    /\ Len(input_queue) < InputQueueMaxSize
    /\ input_queue' = Append(input_queue, EofItem)
    /\ reader_pc' = "done"
    /\ rpc_step' = NoStep
    /\ UNCHANGED <<lines_read, main_pc, task, in_flight, sem_value, sem_waiters, form_of,
                   resp_count, op_calls, releases>>
    /\ UNCHANGED nonRpcVars

\* One iteration of the while True loop of handle_rpc: None ends the loop, an
\* empty line is skipped, any other line gets a task.
MainLoop ==
    /\ main_pc = "loop"
    /\ input_queue # <<>>
    /\ LET item == Head(input_queue)
       IN  /\ input_queue' = Tail(input_queue)
           /\ IF item = EofItem
              THEN /\ main_pc' = "gather"
                   /\ UNCHANGED <<task, in_flight, form_of>>
              ELSE IF item.text = ""
              THEN /\ form_of' = [form_of EXCEPT ![item.req] = "empty"]
                   /\ UNCHANGED <<main_pc, task, in_flight>>
              ELSE /\ task' = [task EXCEPT ![item.req] = [pc |-> "created", id |-> NullId]]
                   /\ in_flight' = in_flight \cup {item.req}
                   /\ UNCHANGED <<main_pc, form_of>>
    /\ rpc_step' = NoStep
    /\ UNCHANGED <<reader_pc, lines_read, sem_value, sem_waiters, resp_count, op_calls,
                   releases>>
    /\ UNCHANGED nonRpcVars

\* run_request from its start: semaphore.acquire() takes a free slot and goes
\* straight on into process_request, or queues the task as a waiter.
RunRequest(r) ==
    /\ task[r].pc = "created"
    /\ IF SemLocked(sem_value, sem_waiters)
       THEN /\ sem_waiters' = Append(sem_waiters, r)
            /\ task' = [task EXCEPT ![r].pc = "waiting"]
            /\ rpc_step' = NoStep
            /\ UNCHANGED <<sem_value, in_flight, form_of, resp_count, op_calls, releases>>
       ELSE \E line \in Lines : ProcessRequest(r, line, sem_value - 1)
    /\ UNCHANGED <<reader_pc, lines_read, input_queue, main_pc>>
    /\ UNCHANGED nonRpcVars

\* run_request resumed after release() of another task handed it the slot.
ResumeRequest(r) ==
    /\ task[r].pc = "acquired"
    /\ \E line \in Lines : ProcessRequest(r, line, sem_value)
    /\ UNCHANGED <<reader_pc, lines_read, input_queue, main_pc>>
    /\ UNCHANGED nonRpcVars

\* The awaited service operation of line r ends: it returns a result
\* (e = NoException) or raises e (the except Exception branch);
\* process_request writes the response and run_request releases the slot.
OperationEnds(r, e) ==
    /\ task[r].pc = "running"
    /\ rpc_step' = [req |-> r, line |-> [NoLine EXCEPT !.id = task[r].id],
                    called |-> FALSE, raised |-> e,
                    written |-> OperationResponse(task[r].id, e)]
    /\ resp_count' = [resp_count EXCEPT ![r] = @ + Len(OperationResponse(task[r].id, e))]
    /\ Finish(r, "done", sem_value)
    /\ UNCHANGED <<reader_pc, lines_read, input_queue, main_pc, form_of, op_calls>>
    /\ UNCHANGED nonRpcVars

\* After the loop: asyncio.gather(*in_flight) returns once every task is done.
Gather ==
    /\ main_pc = "gather"
    /\ in_flight = {}
    /\ main_pc' = "closing"
    /\ rpc_step' = NoStep
    /\ UNCHANGED <<reader_pc, lines_read, input_queue, task, in_flight, sem_value,
                   sem_waiters, form_of, resp_count, op_calls, releases>>
    /\ UNCHANGED nonRpcVars

\* ------------------------------------------------------ service.py: sessions

\* TelegramClient objects one run constructs (login, connect_with_session).
MaxHandles == 2

\* Service operations that can be in progress at once (the dispatcher runs up
\* to 32 requests concurrently).
MaxCalls == 2

\* Seconds of monotonic time one run covers, in steps of TickSeconds.
MaxTicks == 4
TickSeconds == 30

\* max_attempts of _reconnect_client, service.py:123.
max_attempts == 5

\* (now - last) >= 60 in _refresh_account_settings, service.py:228.
RefreshErrorWindow == 60

Accounts == {"acc1"}
Handles == 1..MaxHandles
NoHandle == 0
Calls == 1..MaxCalls

\* An AccountPolicy as the backend returns it (a dict); NoPolicy: no entry in
\* self._account_settings, the defaults of get_account_message_filters apply.
Policies == {"policy1", "policy2"}
NoPolicy == "defaults"

\* What the POST of a policy query comes back with: 200 and a dict (the
\* policy), 200 and no dict, another status, or an exception.
RefreshOutcomes == Policies \cup {"200_no_value", "500", "error"}

NoCall == [op |-> "idle", account |-> "none", pc |-> "idle", client |-> NoHandle]
NoRefreshTask == [pc |-> "none"]

\* The slots are interchangeable: a new call takes the first idle one.
FirstIdle(c) == call[c] = NoCall /\ \A d \in 1..(c - 1) : call[d] # NoCall

NoWatchTask == [pc |-> "none", client |-> NoHandle, attempt |-> 0,
                created_new_client |-> FALSE]
\* What a step leaves in session_step: the operation that returned in it and
\* its result, and the refresh-error notifications written in it.
NoSessionStep == [op |-> "none", account |-> "none", result |-> "none", notified |-> <<>>]

Returned(op, a, result) ==
    [op |-> op, account |-> a, result |-> result, notified |-> <<>>]

Notified(a, notes) ==
    IF notes = <<>> THEN NoSessionStep
    ELSE [op |-> "refresh", account |-> a, result |-> "none", notified |-> notes]

\* _ensure_account_settings_refresh_task: nothing without an endpoint or when
\* the account has an entry already; else a new task, not yet run.
ensure_account_settings_refresh_task(a, tasks) ==
    IF ~convex_url THEN tasks
    ELSE IF tasks[a].pc # "none" THEN tasks
    ELSE [tasks EXCEPT ![a] = [pc |-> "loop"]]

\* _ensure_disconnect_watch_task: nothing when the account has an entry
\* already; else a new task bound to client, not yet run.
ensure_disconnect_watch_task(a, client, tasks) ==
    IF tasks[a].pc # "none" THEN tasks
    ELSE [tasks EXCEPT ![a] = [pc |-> "start", client |-> client, attempt |-> 0,
                               created_new_client |-> FALSE]]

RefreshError_NoRateLimit(a, t) ==
    [ts |-> [refresh_error_ts EXCEPT ![a] = t],
     notified |-> <<"Failed to refresh account settings">>]

\* The except branch of _refresh_account_settings at time t: one error
\* notification unless one was written less than 60 s ago.
RefreshError(a, t) ==
    IF t - refresh_error_ts[a] >= RefreshErrorWindow
    THEN [ts |-> [refresh_error_ts EXCEPT ![a] = t],
          notified |-> <<"Failed to refresh account settings">>]
    ELSE [ts |-> refresh_error_ts, notified |-> <<>>]

\* _refresh_account_settings once its POST has come back with outcome, at
\* time t: the new self._account_settings and
\* self._last_settings_refresh_error_ts and the notifications written.
refresh_account_settings(a, outcome, t) ==
    IF outcome \in Policies
    THEN [settings |-> [account_settings EXCEPT ![a] = outcome],
          ts |-> refresh_error_ts, notified |-> <<>>]
    ELSE IF outcome = "200_no_value"
    THEN [settings |-> account_settings, ts |-> refresh_error_ts, notified |-> <<>>]
    ELSE [settings |-> account_settings,
          ts |-> RefreshError(a, t).ts, notified |-> RefreshError(a, t).notified]

\* _refresh_account_settings_sync once its POST has come back: the new
\* self._account_settings and the value returned.
refresh_account_settings_sync(a, outcome) ==
    IF outcome \in Policies
    THEN [settings |-> [account_settings EXCEPT ![a] = outcome], loaded |-> TRUE]
    ELSE [settings |-> account_settings, loaded |-> FALSE]

\* The end of verify_code and of connect_with_session in slot c, from the
\* return of _refresh_account_settings_sync (loaded) on: the notice about
\* defaults, both background tasks, register_handlers (which has no await of
\* its own) and the result.
SessionEstablished(c, op, a, client, loaded) ==
    /\ refresh_task' = ensure_account_settings_refresh_task(a, refresh_task)
    /\ watch_task' = ensure_disconnect_watch_task(a, client, watch_task)
    /\ subscribed' = [subscribed EXCEPT ![client] = @ + 1]
    /\ handlers_registered' = handlers_registered \cup {a}
    /\ call' = [call EXCEPT ![c] = NoCall]
    /\ session_step' = Returned(op, a, "success")

\* The awaits of a coroutine between which it reads and writes no state of
\* the service (connect and send_code_request in login; sign_in and get_me in
\* verify_code; connect, is_user_authorized and get_me in
\* connect_with_session; sleep, connect and is_user_authorized in
\* _reconnect_client) are taken as one await with one outcome.

\* login up to its first await: a new handle, await client.connect().
LoginCall(c, a) ==
    /\ FirstIdle(c)
    /\ next_handle < MaxHandles
    /\ next_handle' = next_handle + 1
    /\ call' = [call EXCEPT ![c] = [op |-> "login", account |-> a, pc |-> "connect",
                                    client |-> next_handle + 1]]
    /\ session_step' = NoSessionStep
    /\ UNCHANGED <<clients, session_strings, pending_logins, account_settings,
                   refresh_error_ts, refresh_task, watch_task, handlers_registered,
                   connected, subscribed, now, exhausted, expired>>
    /\ UNCHANGED nonSessionVars

\* login once connect and send_code_request have ended: the PendingLogin is
\* recorded, or the exception of either leaves the operation.
LoginConnected(c, outcome) ==
    /\ call[c].op = "login" /\ call[c].pc = "connect"
    /\ connected' = [connected EXCEPT ![call[c].client] = outcome # "connect_error"]
    /\ IF outcome = "ok"
       THEN /\ pending_logins' = [pending_logins EXCEPT ![call[c].account] = call[c].client]
            /\ session_step' = Returned("login", call[c].account, "needs_code")
       ELSE /\ session_step' = Returned("login", call[c].account, "raised")
            /\ UNCHANGED pending_logins
    /\ call' = [call EXCEPT ![c] = NoCall]
    /\ UNCHANGED <<clients, session_strings, account_settings, refresh_error_ts,
                   refresh_task, watch_task, handlers_registered, subscribed,
                   next_handle, now, exhausted, expired>>
    /\ UNCHANGED nonSessionVars

\* verify_code up to its first await: ValueError without a PendingLogin, else
\* await client.sign_in(...) on the pending handle.
VerifyCodeCall(c, a) ==
    /\ FirstIdle(c)
    /\ IF pending_logins[a] = NoHandle
       THEN /\ session_step' = Returned("verify_code", a, "raised")
            /\ UNCHANGED call
       ELSE /\ call' = [call EXCEPT ![c] = [op |-> "verify_code", account |-> a,
                                            pc |-> "sign_in",
                                            client |-> pending_logins[a]]]
            /\ session_step' = NoSessionStep
    /\ UNCHANGED <<clients, session_strings, pending_logins, account_settings,
                   refresh_error_ts, refresh_task, watch_task, handlers_registered,
                   connected, subscribed, next_handle, now, exhausted, expired>>
    /\ UNCHANGED nonSessionVars

SignIn_SecondFactorFails(outcome, password, second) ==
    IF outcome = "ok" THEN "ok"
    ELSE IF outcome = "2fa" /\ password /\ second = "ok" THEN "ok"
    ELSE "raised"

\* What sign_in (with the password after a second-factor error, when one was
\* given) and get_me come to: "ok", "needs_2fa" or "raised".
SignIn(outcome, password, second) ==
    IF outcome = "ok" THEN "ok"
    ELSE IF outcome = "2fa"
    THEN (IF password THEN (IF second = "ok" THEN "ok" ELSE "raised") ELSE "needs_2fa")
    ELSE "raised"

\* verify_code once sign_in and get_me have ended.  Signed in, it records the
\* Session and the credential string and deletes the PendingLogin (KeyError
\* if another call has deleted it), then awaits the policy query, which
\* returns at once without an endpoint.  Whether the request came with a
\* password is input, drawn when the second-factor branch looks at it.
VerifyCodeSignedIn(c, outcome, password, second) ==
    /\ call[c].op = "verify_code" /\ call[c].pc = "sign_in"
    /\ LET a == call[c].account
           client == call[c].client
           signed == SignIn(outcome, password, second)
       IN  IF signed # "ok"
           THEN /\ session_step' = Returned("verify_code", a, signed)
                /\ call' = [call EXCEPT ![c] = NoCall]
                /\ UNCHANGED <<clients, session_strings, pending_logins, refresh_task,
                               watch_task, handlers_registered, subscribed, exhausted,
                               expired>>
           ELSE /\ clients' = [clients EXCEPT ![a] = client]
                /\ session_strings' = [session_strings EXCEPT ![a] = client]
                /\ exhausted' = exhausted \ {a}
                /\ expired' = expired \ {a}
                /\ IF pending_logins[a] = NoHandle
                   THEN /\ session_step' = Returned("verify_code", a, "raised")
                        /\ call' = [call EXCEPT ![c] = NoCall]
                        /\ UNCHANGED <<pending_logins, refresh_task, watch_task,
                                       handlers_registered, subscribed>>
                   ELSE /\ pending_logins' = [pending_logins EXCEPT ![a] = NoHandle]
                        /\ IF convex_url
                           THEN /\ call' = [call EXCEPT ![c].pc = "refresh"]
                                /\ session_step' = NoSessionStep
                                /\ UNCHANGED <<refresh_task, watch_task,
                                               handlers_registered, subscribed>>
                           ELSE SessionEstablished(c, "verify_code", a, client, FALSE)
    /\ UNCHANGED <<account_settings, refresh_error_ts, connected, next_handle, now>>
    /\ UNCHANGED nonSessionVars

\* verify_code once the policy query has come back.
VerifyCodeRefreshed(c, outcome) ==
    /\ call[c].op = "verify_code" /\ call[c].pc = "refresh"
    /\ account_settings' = refresh_account_settings_sync(call[c].account, outcome).settings
    /\ SessionEstablished(c, "verify_code", call[c].account, call[c].client,
                          refresh_account_settings_sync(call[c].account, outcome).loaded)
    /\ UNCHANGED <<clients, session_strings, pending_logins, refresh_error_ts, connected,
                   next_handle, now, exhausted, expired>>
    /\ UNCHANGED nonSessionVars

\* connect_with_session up to its first await: a new handle, await connect().
ConnectWithSessionCall(c, a) ==
    /\ FirstIdle(c)
    /\ next_handle < MaxHandles
    /\ next_handle' = next_handle + 1
    /\ call' = [call EXCEPT ![c] = [op |-> "connect_with_session", account |-> a,
                                    pc |-> "connect", client |-> next_handle + 1]]
    /\ session_step' = NoSessionStep
    /\ UNCHANGED <<clients, session_strings, pending_logins, account_settings,
                   refresh_error_ts, refresh_task, watch_task, handlers_registered,
                   connected, subscribed, now, exhausted, expired>>
    /\ UNCHANGED nonSessionVars

\* connect_with_session once connect, is_user_authorized and get_me have
\* ended: an exception leaves the operation, an unauthorized handle gives
\* {success: False}, else the Session and the credential string are recorded
\* and the policy query is awaited.
ConnectWithSessionConnected(c, outcome) ==
    /\ call[c].op = "connect_with_session" /\ call[c].pc = "connect"
    /\ LET a == call[c].account
           client == call[c].client
       IN  /\ connected' = [connected EXCEPT ![client] = outcome # "connect_error"]
           /\ IF outcome # "ok"
              THEN /\ session_step' =
                         Returned("connect_with_session", a,
                                  IF outcome = "unauthorized" THEN "failure" ELSE "raised")
                   /\ call' = [call EXCEPT ![c] = NoCall]
                   /\ UNCHANGED <<clients, session_strings, refresh_task, watch_task,
                                  handlers_registered, subscribed, exhausted, expired>>
              ELSE /\ clients' = [clients EXCEPT ![a] = client]
                   /\ session_strings' = [session_strings EXCEPT ![a] = client]
                   /\ exhausted' = exhausted \ {a}
                   /\ expired' = expired \ {a}
                   /\ IF convex_url
                      THEN /\ call' = [call EXCEPT ![c].pc = "refresh"]
                           /\ session_step' = NoSessionStep
                           /\ UNCHANGED <<refresh_task, watch_task, handlers_registered,
                                          subscribed>>
                      ELSE SessionEstablished(c, "connect_with_session", a, client, FALSE)
    /\ UNCHANGED <<pending_logins, account_settings, refresh_error_ts, next_handle, now>>
    /\ UNCHANGED nonSessionVars

\* connect_with_session once the policy query has come back.
ConnectWithSessionRefreshed(c, outcome) ==
    /\ call[c].op = "connect_with_session" /\ call[c].pc = "refresh"
    /\ account_settings' = refresh_account_settings_sync(call[c].account, outcome).settings
    /\ SessionEstablished(c, "connect_with_session", call[c].account, call[c].client,
                          refresh_account_settings_sync(call[c].account, outcome).loaded)
    /\ UNCHANGED <<clients, session_strings, pending_logins, refresh_error_ts, connected,
                   next_handle, now, exhausted, expired>>
    /\ UNCHANGED nonSessionVars

\* A task that is cancelled runs no more code of the service: none of its
\* awaits is inside a handler that catches asyncio.CancelledError.  pop and
\* cancel() therefore leave the account without the task.

disconnect_watch_task_Keep(a, tasks) == tasks

\* disconnect from the pop of the watch task on: it is cancelled and awaited
\* if there is one, then client.disconnect() is awaited (one await here:
\* disconnect reads nothing between the two).
disconnect_watch_task(a, tasks) ==
    IF tasks[a].pc # "none" THEN [tasks EXCEPT ![a] = NoWatchTask] ELSE tasks

\* disconnect up to its first await: {success: False} for an account without
\* a Session; else the Session is popped and the refresh task, if there is
\* one, popped, cancelled and awaited.
DisconnectCall(c, a) ==
    /\ FirstIdle(c)
    /\ IF clients[a] = NoHandle
       THEN /\ session_step' = Returned("disconnect", a, "failure")
            /\ UNCHANGED <<clients, refresh_task, watch_task, call>>
       ELSE /\ clients' = [clients EXCEPT ![a] = NoHandle]
            /\ session_step' = NoSessionStep
            /\ IF refresh_task[a].pc # "none"
               THEN /\ refresh_task' = [refresh_task EXCEPT ![a] = NoRefreshTask]
                    /\ call' = [call EXCEPT ![c] = [op |-> "disconnect", account |-> a,
                                                    pc |-> "await_refresh",
                                                    client |-> clients[a]]]
                    /\ UNCHANGED watch_task
               ELSE /\ watch_task' = disconnect_watch_task(a, watch_task)
                    /\ call' = [call EXCEPT ![c] = [op |-> "disconnect", account |-> a,
                                                    pc |-> "close",
                                                    client |-> clients[a]]]
                    /\ UNCHANGED refresh_task
    /\ UNCHANGED <<session_strings, pending_logins, account_settings, refresh_error_ts,
                   handlers_registered, connected, subscribed, next_handle, now,
                   exhausted, expired>>
    /\ UNCHANGED nonSessionVars

\* disconnect once the cancelled refresh task has ended.
DisconnectRefreshAwaited(c) ==
    /\ call[c].op = "disconnect" /\ call[c].pc = "await_refresh"
    /\ watch_task' = disconnect_watch_task(call[c].account, watch_task)
    /\ call' = [call EXCEPT ![c].pc = "close"]
    /\ session_step' = NoSessionStep
    /\ UNCHANGED <<clients, session_strings, pending_logins, account_settings,
                   refresh_error_ts, refresh_task, handlers_registered, connected,
                   subscribed, next_handle, now, exhausted, expired>>
    /\ UNCHANGED nonSessionVars

\* disconnect once client.disconnect() has returned: the credential string is
\* popped, the account taken out of _handlers_registered, {success: True}.
DisconnectClosed(c) ==
    /\ call[c].op = "disconnect" /\ call[c].pc = "close"
    /\ connected' = [connected EXCEPT ![call[c].client] = FALSE]
    /\ session_strings' = [session_strings EXCEPT ![call[c].account] = NoHandle]
    /\ handlers_registered' = handlers_registered \ {call[c].account}
    /\ session_step' = Returned("disconnect", call[c].account, "success")
    /\ call' = [call EXCEPT ![c] = NoCall]
    /\ UNCHANGED <<clients, pending_logins, account_settings, refresh_error_ts,
                   refresh_task, watch_task, subscribed, next_handle, now, exhausted,
                   expired>>
    /\ UNCHANGED nonSessionVars

\* The refresh task at the head of its loop (when first run, and after each
\* sleep): while the account has a Session it posts the policy query, else
\* it ends; its entry stays in the dict.
RefreshTaskLoop(a) ==
    /\ refresh_task[a].pc = "loop"
    /\ refresh_task' = [refresh_task EXCEPT ![a].pc =
                          IF clients[a] # NoHandle THEN "post" ELSE "done"]
    /\ session_step' = NoSessionStep
    /\ UNCHANGED <<clients, session_strings, pending_logins, account_settings,
                   refresh_error_ts, watch_task, handlers_registered, connected,
                   subscribed, next_handle, call, now, exhausted, expired>>
    /\ UNCHANGED nonSessionVars

\* The refresh task once the POST of _refresh_account_settings has come back:
\* the policy is replaced or the failure reported, then asyncio.sleep(30).
RefreshTaskResponse(a, outcome) ==
    /\ refresh_task[a].pc = "post"
    /\ account_settings' = refresh_account_settings(a, outcome, now).settings
    /\ refresh_error_ts' = refresh_account_settings(a, outcome, now).ts
    /\ session_step' = Notified(a, refresh_account_settings(a, outcome, now).notified)
    /\ refresh_task' = [refresh_task EXCEPT ![a].pc = "loop"]
    /\ UNCHANGED <<clients, session_strings, pending_logins, watch_task,
                   handlers_registered, connected, subscribed, next_handle, call, now,
                   exhausted, expired>>
    /\ UNCHANGED nonSessionVars

\* The connection of a handle is lost: of one that is the Session of an
\* account or that a watch task is bound to (the program looks at
\* is_connected and disconnected of no other handle).
TransportLoss(h) ==
    /\ connected[h]
    /\ \E a \in Accounts : clients[a] = h \/ watch_task[a].client = h
    /\ connected' = [connected EXCEPT ![h] = FALSE]
    /\ session_step' = NoSessionStep
    /\ UNCHANGED <<clients, session_strings, pending_logins, account_settings,
                   refresh_error_ts, refresh_task, watch_task, handlers_registered,
                   subscribed, next_handle, call, now, exhausted, expired>>
    /\ UNCHANGED nonSessionVars

\* Time passes.
Tick ==
    /\ now + TickSeconds <= MaxTicks * TickSeconds
    /\ now' = now + TickSeconds
    /\ session_step' = NoSessionStep
    /\ UNCHANGED <<clients, session_strings, pending_logins, account_settings,
                   refresh_error_ts, refresh_task, watch_task, handlers_registered,
                   connected, subscribed, next_handle, call, exhausted, expired>>
    /\ UNCHANGED nonSessionVars

WatchStale_Never(a) == FALSE

\* The two checks of the watch (lines 99-102 and 109-112): it is not current
\* if its account has no Session, or another handle.
WatchStale(a) ==
    clients[a] = NoHandle \/ clients[a] # watch_task[a].client

\* The head of the loop of the watch task (when first run, and after each
\* return of _reconnect_client): it ends if it is not current, else awaits
\* client.disconnected.  Its entry stays in the dict when it ends.
WatchLoop(a) ==
    /\ watch_task[a].pc = "start"
    /\ watch_task' = [watch_task EXCEPT ![a].pc =
                        IF WatchStale(a) THEN "done" ELSE "waiting"]
    /\ session_step' = NoSessionStep
    /\ UNCHANGED <<clients, session_strings, pending_logins, account_settings,
                   refresh_error_ts, refresh_task, handlers_registered, connected,
                   subscribed, next_handle, call, now, exhausted, expired>>
    /\ UNCHANGED nonSessionVars

\* The for loop of _reconnect_client at the head of attempt number attempt
\* (from 0): the terminal notification after max_attempts, a return if the
\* account has lost its Session, else asyncio.sleep(2 ** attempt).
\* exhausted records the accounts for which the terminal notification ("Failed
\* to reconnect ... after 5 attempts") has been written.
reconnect_attempt(a, attempt) ==
    IF attempt >= max_attempts
    THEN /\ watch_task' = [watch_task EXCEPT ![a].pc = "start", ![a].attempt = 0]
         /\ exhausted' = exhausted \cup {a}
    ELSE IF clients[a] = NoHandle
    THEN /\ watch_task' = [watch_task EXCEPT ![a].pc = "start", ![a].attempt = 0]
         /\ UNCHANGED exhausted
    ELSE /\ watch_task' = [watch_task EXCEPT ![a].pc = "sleep", ![a].attempt = attempt]
         /\ UNCHANGED exhausted

\* The watch once client.disconnected has resolved (the handle is not
\* connected): it ends if it is not current, else it writes its notification
\* and calls _reconnect_client, which returns without a credential string and
\* else starts its first attempt on the handle of the account.
WatchDisconnected(a) ==
    /\ watch_task[a].pc = "waiting"
    /\ ~connected[watch_task[a].client]
    /\ IF WatchStale(a)
       THEN /\ watch_task' = [watch_task EXCEPT ![a].pc = "done"]
            /\ UNCHANGED exhausted
       ELSE IF session_strings[a] = NoHandle
       THEN /\ watch_task' = [watch_task EXCEPT ![a].pc = "start"]
            /\ UNCHANGED exhausted
       ELSE reconnect_attempt(a, 0)
    /\ session_step' = NoSessionStep
    /\ UNCHANGED <<clients, session_strings, pending_logins, account_settings,
                   refresh_error_ts, refresh_task, handlers_registered, connected,
                   subscribed, next_handle, call, now, expired>>
    /\ UNCHANGED nonSessionVars

\* The end of a successful attempt, from the return of
\* _refresh_account_settings on: both tasks are ensured, the event hook is
\* subscribed if _reconnect_client made the handle itself and the account is
\* not in _handlers_registered, and _reconnect_client returns.  The watch
\* calls _reconnect_client only when the account has a handle, so that
\* created_new_client is never set.
Reconnected(a) ==
    /\ refresh_task' = ensure_account_settings_refresh_task(a, refresh_task)
    /\ watch_task' = [ensure_disconnect_watch_task(a, watch_task[a].client, watch_task)
                         EXCEPT ![a].pc = "start", ![a].attempt = 0]
    /\ IF watch_task[a].created_new_client /\ a \notin handlers_registered
       THEN /\ subscribed' = [subscribed EXCEPT ![watch_task[a].client] = @ + 1]
            /\ handlers_registered' = handlers_registered \cup {a}
       ELSE UNCHANGED <<subscribed, handlers_registered>>

\* An attempt once its sleep, client.connect() (awaited if the handle is not
\* connected) and client.is_user_authorized() have ended: an exception of
\* either is reported and ends the attempt; unauthorized, "Session expired"
\* is reported and _reconnect_client returns (expired records it);
\* authorized, the policy is refreshed (at once without an endpoint).
ReconnectAttempt(a, outcome) ==
    /\ watch_task[a].pc = "sleep"
    /\ outcome = "connect_error" => ~connected[watch_task[a].client]
    /\ connected' = [connected EXCEPT ![watch_task[a].client] =
                        @ \/ outcome # "connect_error"]
    /\ IF outcome = "unauthorized"
       THEN /\ watch_task' = [watch_task EXCEPT ![a].pc = "start", ![a].attempt = 0]
            /\ expired' = expired \cup {a}
            /\ session_step' = NoSessionStep
            /\ UNCHANGED <<refresh_task, subscribed, handlers_registered, exhausted>>
       ELSE IF outcome = "authorized"
       THEN /\ IF convex_url
               THEN /\ watch_task' = [watch_task EXCEPT ![a].pc = "refresh",
                                                        ![a].attempt = 0]
                    /\ session_step' = NoSessionStep
                    /\ UNCHANGED <<refresh_task, subscribed, handlers_registered>>
               ELSE Reconnected(a) /\ session_step' = NoSessionStep
            /\ UNCHANGED <<exhausted, expired>>
       ELSE /\ reconnect_attempt(a, watch_task[a].attempt + 1)
            /\ session_step' = NoSessionStep
            /\ UNCHANGED <<refresh_task, subscribed, handlers_registered, expired>>
    /\ UNCHANGED <<clients, session_strings, pending_logins, account_settings,
                   refresh_error_ts, next_handle, call, now>>
    /\ UNCHANGED nonSessionVars

\* An attempt once the POST of _refresh_account_settings has come back.
ReconnectRefreshed(a, outcome) ==
    /\ watch_task[a].pc = "refresh"
    /\ account_settings' = refresh_account_settings(a, outcome, now).settings
    /\ refresh_error_ts' = refresh_account_settings(a, outcome, now).ts
    /\ Reconnected(a)
    /\ session_step' = Notified(a, refresh_account_settings(a, outcome, now).notified)
    /\ UNCHANGED <<clients, session_strings, pending_logins, connected, next_handle,
                   call, now, exhausted, expired>>
    /\ UNCHANGED nonSessionVars

\* ------------------------------------------------------------- protocol.py

\* The None close puts on the queue.
NoneLine == 0

write_line_DropOldest(line) ==
    IF Len(writer_queue) < WriterQueueMaxSize
    THEN /\ writer_queue' = Append(writer_queue, line)
         /\ accepted' = Append(accepted, line)
         /\ UNCHANGED dropped
    ELSE /\ writer_queue' = Append(Tail(writer_queue), line)
         /\ accepted' = Append(accepted, line)
         /\ dropped' = dropped \cup {Head(writer_queue)}

\* _StdoutWriter.write_line: put_nowait, the line dropped on queue.Full.
write_line(line) ==
    IF Len(writer_queue) < WriterQueueMaxSize
    THEN /\ writer_queue' = Append(writer_queue, line)
         /\ accepted' = Append(accepted, line)
         /\ UNCHANGED dropped
    ELSE /\ dropped' = dropped \cup {line}
         /\ UNCHANGED <<writer_queue, accepted>>

\* A response or a notification is written while the service runs.
WriteLine ==
    /\ close_pc = "open"
    /\ next_line <= MaxOutLines
    /\ write_line(next_line)
    /\ next_line' = next_line + 1
    /\ UNCHANGED <<buffer, stdout, running, writer_pc, close_pc>>
    /\ UNCHANGED nonOutputVars

\* flush() of _run: the buffer goes to sys.stdout in one write.
flush == stdout' = stdout \o buffer /\ buffer' = <<>>

\* The writer thread takes an item: on None it flushes and returns, else it
\* appends the line and flushes a full batch.
WriterGet ==
    /\ writer_pc = "run"
    /\ writer_queue # <<>>
    /\ writer_queue' = Tail(writer_queue)
    /\ IF Head(writer_queue) = NoneLine
       THEN /\ flush
            /\ writer_pc' = "done"
       ELSE /\ IF Len(buffer) + 1 >= FlushBatch
               THEN /\ stdout' = stdout \o Append(buffer, Head(writer_queue))
                    /\ buffer' = <<>>
               ELSE /\ buffer' = Append(buffer, Head(writer_queue))
                    /\ UNCHANGED stdout
            /\ UNCHANGED writer_pc
    /\ UNCHANGED <<running, close_pc, next_line, accepted, dropped>>
    /\ UNCHANGED nonOutputVars

\* The get of the writer thread times out on an empty queue, 50 ms or more
\* after the last flush: it flushes what it has.
WriterIdleFlush ==
    /\ writer_pc = "run"
    /\ writer_queue = <<>>
    /\ buffer # <<>>
    /\ flush
    /\ UNCHANGED <<writer_queue, running, writer_pc, close_pc, next_line, accepted,
                   dropped>>
    /\ UNCHANGED nonOutputVars

\* shutdown_stdout_writer, the last statement of handle_rpc, calls close:
\* _running goes False and None is put on the queue, or, the queue being
\* full, put(None, timeout=1.0) waits for room.
Close ==
    /\ close_pc = "open"
    /\ running
    /\ running' = FALSE
    /\ IF Len(writer_queue) < WriterQueueMaxSize
       THEN /\ writer_queue' = Append(writer_queue, NoneLine)
            /\ close_pc' = "join"
       ELSE /\ close_pc' = "put"
            /\ UNCHANGED writer_queue
    /\ UNCHANGED <<buffer, stdout, writer_pc, next_line, accepted, dropped>>
    /\ UNCHANGED nonOutputVars

\* put(None, timeout=1.0) finds room within the second.
ClosePut ==
    /\ close_pc = "put"
    /\ Len(writer_queue) < WriterQueueMaxSize
    /\ writer_queue' = Append(writer_queue, NoneLine)
    /\ close_pc' = "join"
    /\ UNCHANGED <<buffer, stdout, running, writer_pc, next_line, accepted, dropped>>
    /\ UNCHANGED nonOutputVars

\* put(None, timeout=1.0) raises queue.Full after a second without room
\* (the writer is held up in sys.stdout.write): close returns.
ClosePutTimeout ==
    /\ close_pc = "put"
    /\ Len(writer_queue) >= WriterQueueMaxSize
    /\ close_pc' = "returned"
    /\ UNCHANGED <<writer_queue, buffer, stdout, running, writer_pc, next_line,
                   accepted, dropped>>
    /\ UNCHANGED nonOutputVars

\* self._thread.join(timeout=1.0) returns: the writer has ended, or a second
\* has passed.
CloseJoin ==
    /\ close_pc = "join"
    /\ close_pc' = "returned"
    /\ UNCHANGED <<writer_queue, buffer, stdout, running, writer_pc, next_line,
                   accepted, dropped>>
    /\ UNCHANGED nonOutputVars

\* handle_rpc returns and the process ends: the stream is closed, and the
\* writer thread, a daemon, ends with the process wherever it is.
Exit ==
    /\ close_pc = "returned"
    /\ close_pc' = "exited"
    /\ writer_pc' = IF writer_pc = "run" THEN "killed" ELSE writer_pc
    /\ UNCHANGED <<writer_queue, buffer, stdout, running, next_line, accepted, dropped>>
    /\ UNCHANGED nonOutputVars

\* ------------------------------------------------- rpc.py, service.py: shutdown

\* What is left of the rest of handle_rpc in these runs: the variables only
\* the dispatcher and the sync pipeline touch.
shutdownFrame == <<convex_url, sync_queue_made, sync_queue, sync_worker, pq_worker_task,
                   pq_rows, pq_lastrowid, notified, next_payload, payload_of,
                   enqueue_ret, stored, readmitted, handed, transmitted, reader_pc,
                   lines_read, input_queue, task, in_flight, sem_value, sem_waiters,
                   rpc_step, form_of, resp_count, op_calls, releases, filterVars,
                   drainVars, outputVars>>

\* The main coroutine is in the for loop of handle_rpc over
\* list(service.clients.keys()) and no disconnect it awaits is in progress:
\* it runs on without an await, so no task gets a turn.
ShutdownRunnable == main_pc = "disconnecting" /\ \A c \in Calls : call[c] = NoCall

\* The accounts of the list that the loop has still to disconnect.
ShutdownRemaining ==
    {a \in Accounts : shutdown_sessions[a] # NoHandle /\ clients[a] # NoHandle}

\* stdin has ended and every request has been answered (the gather of
\* in_flight): handle_rpc sets shutdown_event and lists the accounts.
ShutdownBegin ==
    /\ main_pc = "loop"
    /\ \A c \in Calls : call[c] = NoCall
    /\ main_pc' = "disconnecting"
    /\ shutdown_sessions' = clients
    /\ session_step' = NoSessionStep
    /\ UNCHANGED <<clients, session_strings, pending_logins, account_settings,
                   refresh_error_ts, refresh_task, watch_task, handlers_registered,
                   connected, subscribed, next_handle, call, now, exhausted, expired>>
    /\ UNCHANGED <<shutdownFrame, orphans>>

\* await service.disconnect(account_id) for the next account of the list.
ShutdownDisconnect(c, a) ==
    /\ ShutdownRunnable
    /\ a \in ShutdownRemaining
    /\ DisconnectCall(c, a)

\* task.cancel() for every task of self._account_settings_refresh_tasks.
cancel_all_refresh(tasks) ==
    [a \in Accounts |-> IF tasks[a].pc = "none" THEN tasks[a] ELSE [pc |-> "cancelled"]]

cancel_all_watch_NoCancel(tasks) == tasks

\* task.cancel() for every task of self._disconnect_watch_tasks.
cancel_all_watch(tasks) ==
    [a \in Accounts |-> IF tasks[a].pc = "none" THEN tasks[a]
                        ELSE [tasks[a] EXCEPT !.pc = "cancelled"]]

\* The accounts with a refresh task, and with a watch task, that is running.
RefreshRunning(tasks) == {a \in Accounts : tasks[a].pc \in {"loop", "post"}}
WatchRunning(tasks) == {a \in Accounts : tasks[a].pc \notin {"none", "done", "cancelled"}}

\* The end of TelegramService.shutdown, from the cancel of the watch tasks on
\* (these runs have no drain worker and no overflow-drain loop, so nothing is
\* awaited before it): with an empty dict shutdown returns, else it awaits
\* the cancelled tasks.
ShutdownWatchTasks ==
    /\ ~sync_queue_made /\ ~pq_worker_task
    /\ watch_task' = cancel_all_watch(watch_task)
    /\ main_pc' = IF \E a \in Accounts : watch_task[a].pc # "none"
                  THEN "gather_watch" ELSE "closed"

\* TelegramService.shutdown is called when the loop over the accounts is
\* done: every refresh task is cancelled; with an empty dict it goes on to
\* the watch tasks at once, else it awaits the cancelled tasks.
ShutdownCall ==
    /\ ShutdownRunnable
    /\ ShutdownRemaining = {}
    /\ refresh_task' = cancel_all_refresh(refresh_task)
    /\ IF \E a \in Accounts : refresh_task[a].pc # "none"
       THEN /\ main_pc' = "gather_refresh"
            /\ UNCHANGED watch_task
       ELSE ShutdownWatchTasks
    /\ session_step' = NoSessionStep
    /\ UNCHANGED <<clients, session_strings, pending_logins, account_settings,
                   refresh_error_ts, handlers_registered, connected, subscribed,
                   next_handle, call, now, exhausted, expired>>
    /\ UNCHANGED <<shutdownFrame, shutdownVars>>

\* The gather of the refresh tasks has returned: the dict is cleared, a task
\* put there meanwhile included, and the watch tasks are cancelled.
ShutdownRefreshGathered ==
    /\ main_pc = "gather_refresh"
    /\ orphans' = orphans \cup RefreshRunning(refresh_task)
    /\ refresh_task' = [a \in Accounts |-> NoRefreshTask]
    /\ ShutdownWatchTasks
    /\ session_step' = NoSessionStep
    /\ UNCHANGED <<clients, session_strings, pending_logins, account_settings,
                   refresh_error_ts, handlers_registered, connected, subscribed,
                   next_handle, call, now, exhausted, expired>>
    /\ UNCHANGED <<shutdownFrame, shutdown_sessions>>

\* The gather of the watch tasks has returned: the dict is cleared and
\* shutdown returns.
ShutdownWatchGathered ==
    /\ main_pc = "gather_watch"
    /\ orphans' = orphans \cup WatchRunning(watch_task)
    /\ watch_task' = [a \in Accounts |-> NoWatchTask]
    /\ main_pc' = "closed"
    /\ session_step' = NoSessionStep
    /\ UNCHANGED <<clients, session_strings, pending_logins, account_settings,
                   refresh_error_ts, refresh_task, handlers_registered, connected,
                   subscribed, next_handle, call, now, exhausted, expired>>
    /\ UNCHANGED <<shutdownFrame, shutdown_sessions>>

\* ------------------------------------------ service.py: shutdown of the pipeline

\* What the shutdown of the sync pipeline leaves alone.  In these runs no
\* account was connected, so shutdown has no refresh task and no watch task
\* to cancel and the sentinels are the first thing it does.
drainFrame == <<convex_url, sync_queue_made, pq_rows, pq_lastrowid, next_payload,
                payload_of, enqueue_ret, stored, readmitted, handed, transmitted,
                reader_pc, lines_read, input_queue, task, in_flight, sem_value,
                sem_waiters, rpc_step, form_of, resp_count, op_calls, releases,
                sessionVars, filterVars, shutdownVars, outputVars>>

\* len(self._sync_worker_tasks): the set keeps a task that has returned.
WorkerTasks == {w \in Workers : sync_worker[w].pc # "none"}

\* The drain workers that have not returned.
WorkersRunning == {w \in Workers : sync_worker[w].pc \in {"get", "post"}}

\* The sentinels on the memory queue.
Sentinels(q) == Len(SelectSeq(q, LAMBDA item : item = NoneItem))

\* count times None.
Nones(count) == [i \in 1..count |-> NoneItem]

\* The sentinels put_nowait takes before it raises QueueFull.
SentinelsNow(left) ==
    IF left <= SyncQueueMaxSize - Len(sync_queue)
    THEN left ELSE SyncQueueMaxSize - Len(sync_queue)

PutSentinels_OneTooFew(left) ==
    /\ sync_queue' = sync_queue \o Nones(SentinelsNow(left))
    /\ sentinels_left' = IF left - SentinelsNow(left) = 1 THEN 0
                         ELSE left - SentinelsNow(left)
    /\ main_pc' = IF sentinels_left' = 0 THEN "gather_workers" ELSE "put_sentinel"

\* The for loop of shutdown up to its next await: put_nowait(None) for each
\* sentinel still to put, until the queue is full (then it awaits put(None))
\* or the loop is done (then it awaits the gather of the workers).
PutSentinels(left) ==
    /\ sync_queue' = sync_queue \o Nones(SentinelsNow(left))
    /\ sentinels_left' = left - SentinelsNow(left)
    /\ main_pc' = IF sentinels_left' = 0 THEN "gather_workers" ELSE "put_sentinel"

\* self._persistent_queue_worker_task.cancel() and the await of the task,
\* then the rest of shutdown: the task is suspended in a sleep or has not
\* started, so it runs no more code, and there is no watch task.
CancelPersistentQueueWorker ==
    /\ pq_worker_task' = FALSE
    /\ main_pc' = "closed"

\* TelegramService.shutdown from the sentinels on, called by handle_rpc when
\* stdin has ended and every request has been answered.
ShutdownSentinels ==
    /\ main_pc = "loop"
    /\ \A a \in Accounts : /\ clients[a] = NoHandle
                           /\ refresh_task[a].pc = "none"
                           /\ watch_task[a].pc = "none"
    /\ IF sync_queue_made /\ WorkerTasks # {}
       THEN /\ PutSentinels(Cardinality(WorkerTasks))
            /\ UNCHANGED <<sync_worker, pq_worker_task>>
       ELSE /\ CancelPersistentQueueWorker
            /\ UNCHANGED <<sync_queue, sync_worker, sentinels_left>>
    /\ notified' = <<>>
    /\ UNCHANGED drainFrame

\* await self._sync_queue.put(None) returns: a worker has made room.  The
\* for loop goes on with the sentinels that are left.
ShutdownPutAwaited ==
    /\ main_pc = "put_sentinel"
    /\ ~QueueFull(sync_queue)
    /\ PutSentinels(sentinels_left)
    /\ notified' = <<>>
    /\ UNCHANGED <<sync_worker, pq_worker_task>>
    /\ UNCHANGED drainFrame

\* The gather of the drain workers returns when each of them has returned:
\* the task set is cleared and the overflow-drain loop is cancelled.
ShutdownWorkersGathered ==
    /\ main_pc = "gather_workers"
    /\ WorkersRunning = {}
    /\ sync_worker' = [w \in Workers |-> IdleWorker]
    /\ CancelPersistentQueueWorker
    /\ notified' = <<>>
    /\ UNCHANGED <<sync_queue, sentinels_left>>
    /\ UNCHANGED drainFrame

\* ------------------------------------------ service.py, handlers.py: filter

Flags == {"saveMessages", "saveFromChannels", "saveFromBots", "saveFromPrivate",
          "saveFromGroups"}

\* A policy dict as the backend returns it: each flag True, False or absent.
SettingsDicts == [Flags -> {"True", "False", "absent"}]

\* The empty dict: what get_account_message_filters reads when the account has
\* no entry in self._account_settings.
EmptySettings == [k \in Flags |-> "absent"]

\* bool(settings.get(key, default)).
get(dict, key, default) ==
    IF dict[key] = "absent" THEN default ELSE dict[key] = "True"

get_account_message_filters(dict) ==
    [saveMessages |-> get(dict, "saveMessages", TRUE),
     saveFromChannels |-> get(dict, "saveFromChannels", FALSE),
     saveFromBots |-> get(dict, "saveFromBots", FALSE),
     saveFromPrivate |-> get(dict, "saveFromPrivate", TRUE),
     saveFromGroups |-> get(dict, "saveFromGroups", FALSE)]

\* The filters of an account that has nothing in self._account_settings.
DefaultFilters == get_account_message_filters(EmptySettings)

\* What event.get_chat() returns: a User (bot or not), a Chat, a Channel
\* (broadcast or megagroup), or None when the entity cannot be resolved.
ChatEntities == {"User", "BotUser", "Chat", "BroadcastChannel", "Megagroup", "None"}

\* What message.get_sender() returns: a User (bot or not), a Channel, or None.
SenderEntities == {"User", "BotUser", "Channel", "None"}

\* The event kinds by the flags the library sets on the event, with the chat
\* entities each kind can resolve to.
EventKinds ==
    {[is_private |-> TRUE, is_group |-> FALSE, is_channel |-> FALSE],
     [is_private |-> FALSE, is_group |-> TRUE, is_channel |-> FALSE],
     [is_private |-> FALSE, is_group |-> TRUE, is_channel |-> TRUE],
     [is_private |-> FALSE, is_group |-> FALSE, is_channel |-> TRUE]}

ChatsOf(kind) ==
    IF kind.is_private THEN {"User", "BotUser", "None"}
    ELSE IF kind.is_group /\ kind.is_channel THEN {"Megagroup", "None"}
    ELSE IF kind.is_group THEN {"Chat", "None"}
    ELSE {"BroadcastChannel", "None"}

\* A new-message event: its kind, the chat and the sender it resolves to, and
\* whether message.via_bot_id is set.
Events ==
    {[kind |-> k, chat |-> c, sender |-> s, via_bot |-> v] :
        k \in EventKinds, c \in ChatEntities, s \in SenderEntities, v \in BOOLEAN}

NewMessageEvents == {ev \in Events : ev.chat \in ChatsOf(ev.kind)}

\* should_handle_new_message: the func of the NewMessage hook.
should_handle_new_message(filters, event) ==
    IF ~filters.saveMessages THEN FALSE
    ELSE IF event.kind.is_private THEN filters.saveFromPrivate \/ filters.saveFromBots
    ELSE IF event.kind.is_group THEN filters.saveFromGroups
    ELSE IF event.kind.is_channel /\ ~event.kind.is_group THEN filters.saveFromChannels
    ELSE IF event.kind.is_channel THEN filters.saveFromGroups
    ELSE TRUE

\* get_peer_info: peer_type and is_bot of the chat.
get_peer_info(chat) ==
    IF chat = "BroadcastChannel" THEN [peer_type |-> "channel", is_bot |-> FALSE]
    ELSE IF chat \in {"Megagroup", "Chat"} THEN [peer_type |-> "chat", is_bot |-> FALSE]
    ELSE IF chat \in {"User", "BotUser"}
    THEN [peer_type |-> "user", is_bot |-> chat = "BotUser"]
    ELSE [peer_type |-> "user", is_bot |-> FALSE]

\* get_sender_info: is_bot of the sender.
get_sender_info(sender) ==
    IF sender = "None" THEN FALSE
    ELSE IF sender \in {"User", "BotUser"} THEN sender = "BotUser"
    ELSE FALSE

\* The bot flag handle_new_message resolves: the peer is a bot, the message
\* was sent via a bot, or the sender is a bot.
is_bot(event) ==
    get_peer_info(event.chat).is_bot \/ event.via_bot \/ get_sender_info(event.sender)

\* The first checks of handle_new_message, on the flags of the event.
EventKindAllowed(filters, event) ==
    IF event.kind.is_private THEN filters.saveFromPrivate \/ filters.saveFromBots
    ELSE IF event.kind.is_group THEN filters.saveFromGroups
    ELSE IF event.kind.is_channel THEN filters.saveFromChannels
    ELSE TRUE

\* The checks of handle_new_message on the resolved peer type.
PeerTypeAllowed(filters, peer_type) ==
    IF peer_type = "user" THEN filters.saveFromPrivate \/ filters.saveFromBots
    ELSE IF peer_type = "chat" THEN filters.saveFromGroups
    ELSE IF peer_type = "channel" THEN filters.saveFromChannels
    ELSE TRUE

\* handle_new_message: TRUE iff it reaches enqueue_sync_message.
handle_new_message(filters, event) ==
    /\ filters.saveMessages
    /\ EventKindAllowed(filters, event)
    /\ PeerTypeAllowed(filters, get_peer_info(event.chat).peer_type)
    /\ ~(is_bot(event) /\ ~filters.saveFromBots)
    /\ ~(/\ get_peer_info(event.chat).peer_type = "user"
         /\ ~get_sender_info(event.sender)
         /\ ~filters.saveFromPrivate)

NoEvent == [kind |-> [is_private |-> FALSE, is_group |-> FALSE, is_channel |-> FALSE],
            chat |-> "None", sender |-> "None", via_bot |-> FALSE]

NoFilterStep == [event |-> NoEvent, hook |-> FALSE, enqueued |-> FALSE]

\* A policy refresh stores the dict the backend returned for the account
\* (self._account_settings[account_id] = value).
SettingsLoaded(dict) ==
    /\ settings' = dict
    /\ filter_step' = NoFilterStep
    /\ UNCHANGED nonFilterVars

NewMessage_Unfiltered(event) ==
    /\ filter_step' = [event |-> event, hook |-> TRUE, enqueued |-> TRUE]
    /\ UNCHANGED settings
    /\ UNCHANGED nonFilterVars

\* A new message arrives on a handle with the event hook: the hook calls
\* should_handle_new_message and, when that passes, on_new_message runs
\* handle_new_message, which reads the filters before its first await.
NewMessage(event) ==
    /\ LET filters == get_account_message_filters(settings)
           hook == should_handle_new_message(filters, event)
       IN  filter_step' = [event |-> event, hook |-> hook,
                           enqueued |-> hook /\ handle_new_message(filters, event)]
    /\ UNCHANGED settings
    /\ UNCHANGED nonFilterVars

\* ------------------------------------------------------------ specification

InitSync ==
    /\ sync_queue_made = FALSE
    /\ sync_queue = <<>>
    /\ sync_worker = [w \in Workers |-> IdleWorker]
    /\ pq_worker_task = FALSE
    /\ pq_rows = <<>>
    /\ pq_lastrowid = 0
    /\ notified = <<>>
    /\ next_payload = 1
    /\ payload_of = [p \in PayloadIds |-> NoneItem]
    /\ enqueue_ret = [p \in PayloadIds |-> "none"]
    /\ stored = {}
    /\ readmitted = {}
    /\ handed = [p \in PayloadIds |-> 0]
    /\ transmitted = {}

InitRpc ==
    /\ reader_pc = "read"
    /\ lines_read = 0
    /\ input_queue = <<>>
    /\ main_pc = "loop"
    /\ task = [r \in LineNumbers |-> NoTask]
    /\ in_flight = {}
    /\ sem_value = SemaphoreLimit
    /\ sem_waiters = <<>>
    /\ rpc_step = NoStep
    /\ form_of = [r \in LineNumbers |-> "none"]
    /\ resp_count = [r \in LineNumbers |-> 0]
    /\ op_calls = [r \in LineNumbers |-> 0]
    /\ releases = [r \in LineNumbers |-> 0]

InitSession ==
    /\ clients = [a \in Accounts |-> NoHandle]
    /\ session_strings = [a \in Accounts |-> NoHandle]
    /\ pending_logins = [a \in Accounts |-> NoHandle]
    /\ account_settings = [a \in Accounts |-> NoPolicy]
    /\ refresh_error_ts = [a \in Accounts |-> 0]
    /\ refresh_task = [a \in Accounts |-> NoRefreshTask]
    /\ watch_task = [a \in Accounts |-> NoWatchTask]
    /\ handlers_registered = {}
    /\ connected = [h \in Handles |-> FALSE]
    /\ subscribed = [h \in Handles |-> 0]
    /\ next_handle = 0
    /\ call = [c \in Calls |-> NoCall]
    /\ now = 0
    /\ session_step = NoSessionStep
    /\ exhausted = {}
    /\ expired = {}

InitFilter ==
    /\ settings = EmptySettings
    /\ filter_step = NoFilterStep

InitShutdown ==
    /\ shutdown_sessions = [a \in Accounts |-> NoHandle]
    /\ orphans = {}

InitDrain ==
    sentinels_left = 0

\* The writer as _get_stdout_writer makes it, its thread started.
InitOutput ==
    /\ writer_queue = <<>>
    /\ buffer = <<>>
    /\ stdout = <<>>
    /\ running = TRUE
    /\ writer_pc = "run"
    /\ close_pc = "open"
    /\ next_line = 1
    /\ accepted = <<>>
    /\ dropped = {}

\* The endpoint is configured or not (CONVEX_URL may be empty).
Init ==
    /\ convex_url \in BOOLEAN
    /\ InitSync /\ InitRpc /\ InitSession /\ InitFilter /\ InitShutdown /\ InitDrain
    /\ InitOutput

\* The dispatcher never reads convex_url: its runs start with one configured.
InitDispatcher ==
    /\ convex_url = TRUE
    /\ InitSync /\ InitRpc /\ InitSession /\ InitFilter /\ InitShutdown /\ InitDrain
    /\ InitOutput

NextSync ==
    \/ Enqueue
    \/ PersistentQueueWorker
    \/ \E w \in Workers : WorkerGet(w)
    \/ \E w \in Workers, outcome \in HttpOutcomes : WorkerResponse(w, outcome)

SpecSync == Init /\ [][NextSync]_vars

NextRpc ==
    \/ ReadLine
    \/ ReadEof
    \/ MainLoop
    \/ \E r \in LineNumbers : RunRequest(r)
    \/ \E r \in LineNumbers : ResumeRequest(r)
    \/ \E r \in LineNumbers, e \in Exceptions \cup {NoException} : OperationEnds(r, e)
    \/ Gather

SpecRpc == InitDispatcher /\ [][NextRpc]_vars

\* The read loop and the request tasks run on the asyncio event loop, which
\* keeps running the tasks that are ready; every service operation is taken
\* to end, as the claims about the dispatcher assume.  Nothing is assumed of
\* stdin: input may stop at any point.
RpcProgress ==
    \/ MainLoop
    \/ \E r \in LineNumbers : RunRequest(r)
    \/ \E r \in LineNumbers : ResumeRequest(r)
    \/ \E r \in LineNumbers, e \in Exceptions \cup {NoException} : OperationEnds(r, e)
    \/ Gather

FairRpc == SpecRpc /\ WF_vars(RpcProgress)

\* The drain workers and the overflow-drain loop are asyncio tasks: the event
\* loop keeps running the tasks that are ready, and every POST ends (the HTTP
\* client has a 20 s timeout), so the pipeline does not stop while one of
\* their steps is possible.
SyncProgress ==
    \/ PersistentQueueWorker
    \/ \E w \in Workers : WorkerGet(w)
    \/ \E w \in Workers, outcome \in HttpOutcomes : WorkerResponse(w, outcome)

FairSync == SpecSync /\ WF_vars(SyncProgress)

\* The sync pipeline with the shutdown of TelegramService: handle_rpc
\* disconnects every Session before it calls shutdown, so events are enqueued
\* only while the read loop runs.
NextDrain ==
    \/ main_pc = "loop" /\ Enqueue
    \/ PersistentQueueWorker
    \/ \E w \in Workers : WorkerGet(w)
    \/ \E w \in Workers, outcome \in HttpOutcomes : WorkerResponse(w, outcome)
    \/ ShutdownSentinels
    \/ ShutdownPutAwaited
    \/ ShutdownWorkersGathered

SpecDrain == Init /\ [][NextDrain]_vars

\* The main coroutine, the drain workers and the overflow-drain loop run on
\* the asyncio event loop, which keeps running what is ready; every POST ends.
DrainProgress ==
    \/ \E w \in Workers : WorkerGet(w)
    \/ \E w \in Workers, outcome \in HttpOutcomes : WorkerResponse(w, outcome)
    \/ ShutdownPutAwaited
    \/ ShutdownWorkersGathered

FairDrain == SpecDrain /\ WF_vars(DrainProgress)

\* The session operations as the dispatcher calls them, the background tasks
\* and the loss of a connection.
NextSession ==
    \/ \E c \in Calls, a \in Accounts : LoginCall(c, a)
    \/ \E c \in Calls, outcome \in {"ok", "connect_error", "code_error"} :
          LoginConnected(c, outcome)
    \/ \E c \in Calls, a \in Accounts : VerifyCodeCall(c, a)
    \/ \E c \in Calls, outcome \in {"ok", "2fa", "error"}, password \in BOOLEAN,
          second \in {"ok", "error"} : VerifyCodeSignedIn(c, outcome, password, second)
    \/ \E c \in Calls, outcome \in RefreshOutcomes : VerifyCodeRefreshed(c, outcome)
    \/ \E c \in Calls, a \in Accounts : ConnectWithSessionCall(c, a)
    \/ \E c \in Calls, outcome \in {"ok", "unauthorized", "connect_error"} :
          ConnectWithSessionConnected(c, outcome)
    \/ \E c \in Calls, outcome \in RefreshOutcomes : ConnectWithSessionRefreshed(c, outcome)
    \/ \E c \in Calls, a \in Accounts : DisconnectCall(c, a)
    \/ \E c \in Calls : DisconnectRefreshAwaited(c)
    \/ \E c \in Calls : DisconnectClosed(c)
    \/ \E a \in Accounts : RefreshTaskLoop(a)
    \/ \E a \in Accounts, outcome \in RefreshOutcomes : RefreshTaskResponse(a, outcome)
    \/ \E a \in Accounts : WatchLoop(a)
    \/ \E a \in Accounts : WatchDisconnected(a)
    \/ \E a \in Accounts,
          outcome \in {"connect_error", "authorized", "unauthorized", "error"} :
          ReconnectAttempt(a, outcome)
    \/ \E a \in Accounts, outcome \in RefreshOutcomes : ReconnectRefreshed(a, outcome)
    \/ \E h \in Handles : TransportLoss(h)

SpecSession == Init /\ [][NextSession]_vars

\* The policy refresh over time: sessions made by connect_with_session and
\* ended by disconnect, the refresh task, the watch with its reconnection
\* (which refreshes the policy too), and the clock.
NextRefresh ==
    \/ \E c \in Calls, a \in Accounts : ConnectWithSessionCall(c, a)
    \/ \E c \in Calls, outcome \in {"ok", "unauthorized", "connect_error"} :
          ConnectWithSessionConnected(c, outcome)
    \/ \E c \in Calls, outcome \in RefreshOutcomes : ConnectWithSessionRefreshed(c, outcome)
    \/ \E c \in Calls, a \in Accounts : DisconnectCall(c, a)
    \/ \E c \in Calls : DisconnectRefreshAwaited(c)
    \/ \E c \in Calls : DisconnectClosed(c)
    \/ \E a \in Accounts : RefreshTaskLoop(a)
    \/ \E a \in Accounts, outcome \in RefreshOutcomes : RefreshTaskResponse(a, outcome)
    \/ \E a \in Accounts : WatchLoop(a)
    \/ \E a \in Accounts : WatchDisconnected(a)
    \/ \E a \in Accounts,
          outcome \in {"connect_error", "authorized", "unauthorized", "error"} :
          ReconnectAttempt(a, outcome)
    \/ \E a \in Accounts, outcome \in RefreshOutcomes : ReconnectRefreshed(a, outcome)
    \/ \E h \in Handles : TransportLoss(h)
    \/ Tick

SpecRefresh == InitDispatcher /\ [][NextRefresh]_vars

\* The end of a run: sessions made by connect_with_session and ended by
\* disconnect while requests are served, then the shutdown sequence.  While
\* the main coroutine runs between two of its awaits no task gets a turn.
NextShutdown ==
    \/ /\ main_pc = "loop"
       /\ \/ \E c \in Calls, a \in Accounts : ConnectWithSessionCall(c, a)
          \/ \E c \in Calls, a \in Accounts : DisconnectCall(c, a)
    \/ /\ ~ShutdownRunnable
       /\ \/ \E c \in Calls, outcome \in {"ok", "unauthorized", "connect_error"} :
                ConnectWithSessionConnected(c, outcome)
          \/ \E c \in Calls, outcome \in RefreshOutcomes :
                ConnectWithSessionRefreshed(c, outcome)
          \/ \E c \in Calls : DisconnectRefreshAwaited(c)
          \/ \E c \in Calls : DisconnectClosed(c)
          \/ \E a \in Accounts : RefreshTaskLoop(a)
          \/ \E a \in Accounts, outcome \in RefreshOutcomes : RefreshTaskResponse(a, outcome)
          \/ \E a \in Accounts : WatchLoop(a)
          \/ \E a \in Accounts : WatchDisconnected(a)
          \/ \E a \in Accounts,
                outcome \in {"connect_error", "authorized", "unauthorized", "error"} :
                ReconnectAttempt(a, outcome)
          \/ \E a \in Accounts, outcome \in RefreshOutcomes : ReconnectRefreshed(a, outcome)
          \/ \E h \in Handles : TransportLoss(h)
    \/ ShutdownBegin
    \/ \E c \in Calls, a \in Accounts : ShutdownDisconnect(c, a)
    \/ ShutdownCall
    \/ ShutdownRefreshGathered
    \/ ShutdownWatchGathered

SpecShutdown == Init /\ [][NextShutdown]_vars

\* The output channel: lines are written while the service runs, the writer
\* thread drains them, and the run ends with shutdown_stdout_writer.  The
\* writer never reads convex_url.
NextOutput ==
    \/ WriteLine
    \/ WriterGet
    \/ WriterIdleFlush
    \/ Close
    \/ ClosePut
    \/ ClosePutTimeout
    \/ CloseJoin
    \/ Exit

SpecOutput == InitDispatcher /\ [][NextOutput]_vars

\* The event filter: policies come and go, events arrive.  The filter never
\* reads convex_url.
NextFilter ==
    \/ \E dict \in SettingsDicts : SettingsLoaded(dict)
    \/ \E event \in NewMessageEvents : NewMessage(event)

SpecFilter == InitDispatcher /\ [][NextFilter]_vars

\* ------------------------------------------------- sync pipeline: claims

InQueue(p) == \E i \in 1..Len(sync_queue) : sync_queue[i].telegram_id = p

InStore(p) ==
    \E i \in 1..Len(PersistentQueue_read_all) : PersistentQueue_read_all[i][2].telegram_id = p

\* C1: with an endpoint configured, a call of enqueue_sync_message(p) returns
\* True and leaves p on the memory queue or, only when the queue was full, in
\* the Overflow Store, exactly as it was passed in.
C1_EnqueueNeverDiscards ==
    [][\A p \in PayloadIds :
         (convex_url /\ enqueue_ret[p] = "none" /\ enqueue_ret'[p] # "none") =>
            /\ enqueue_ret'[p] = "True"
            /\ \/ /\ ~QueueFull(sync_queue)
                  /\ sync_queue' = Append(sync_queue, payload_of'[p])
                  /\ pq_rows' = pq_rows
               \/ /\ QueueFull(sync_queue)
                  /\ sync_queue' = sync_queue
                  /\ Len(PersistentQueue_read_all') = Len(PersistentQueue_read_all) + 1
                  /\ PersistentQueue_read_all'[Len(pq_rows')][2] = payload_of'[p]]_vars

\* C1 witness: one payload was accepted onto the queue and a later one
\* overflowed into the store, both with a True return.
C1_Witness ==
    \E p, q \in PayloadIds :
        /\ enqueue_ret[p] = "True" /\ p \notin stored
        /\ enqueue_ret[q] = "True" /\ q \in stored /\ InStore(q)

\* C2: no payload is handed to delivery twice, and every payload enqueued (with
\* an endpoint configured) is eventually handed to delivery, whether it went
\* through the memory queue directly or through the Overflow Store: handed
\* never decreases, so from some point on every enqueued payload has been
\* handed over exactly once.
C2_DeliveredExactlyOnce ==
    /\ [](\A p \in PayloadIds : handed[p] <= 1)
    /\ <>[](\A p \in PayloadIds : (convex_url /\ enqueue_ret[p] # "none") => handed[p] = 1)

\* C2 witness: more payloads than the queue holds were enqueued, some went
\* through the store, some directly, and all have been handed to delivery.
C2_Witness ==
    /\ next_payload > MaxPayloads
    /\ MaxPayloads > SyncQueueMaxSize
    /\ stored # {} /\ stored # PayloadIds
    /\ \A p \in PayloadIds : handed[p] = 1

\* C3: every entry of the Overflow Store is eventually put back on the memory
\* queue by the overflow-drain loop, deleted from the store and handed to
\* delivery: from some point on the store holds nothing and everything that
\* was ever written to it has gone to a drain worker.
C3_StoreEntryDelivered ==
    <>[](/\ PersistentQueue_read_all = <<>>
         /\ \A p \in stored : p \in readmitted /\ handed[p] >= 1)

\* C3 witness: two payloads overflowed into the store (each was enqueued while
\* the queue was full), and both were put back and handed to delivery.
C3_Witness ==
    \E p, q \in stored :
        /\ p # q
        /\ p \in readmitted /\ ~InStore(p) /\ handed[p] = 1
        /\ q \in readmitted /\ ~InStore(q) /\ handed[q] = 1

\* C4: a payload written to the Overflow Store is in the store exactly until the
\* drain loop has put it on the memory queue: it is never deleted without having
\* been re-inserted, and once re-inserted it is on the queue or with a worker.
C4_StoreEntryPersists ==
    \A p \in stored :
        /\ InStore(p) <=> p \notin readmitted
        /\ p \in readmitted => (InQueue(p) \/ handed[p] >= 1)
        /\ InStore(p) => ~InQueue(p) /\ handed[p] = 0

\* C4 witness: the queue is full while an entry waits in the store, after
\* another entry was re-inserted and deleted.
C4_Witness ==
    \E p, q \in stored :
        /\ InStore(p) /\ QueueFull(sync_queue) /\ ~InQueue(p)
        /\ q \in readmitted /\ ~InStore(q)

\* C5: no payload whose peer id is the system-notices id is ever POSTed.
C5_SystemPeerNeverTransmitted ==
    \A p \in transmitted : payload_of[p].peer_id # SystemPeer

\* C5 witness: system-notices payloads reached a drain worker on both paths,
\* one directly and one through the store, and an ordinary payload was POSTed.
C5_Witness ==
    \E p, q, r \in PayloadIds :
        /\ payload_of[p].peer_id = SystemPeer /\ handed[p] = 1 /\ p \notin stored
        /\ payload_of[q].peer_id = SystemPeer /\ handed[q] = 1 /\ q \in readmitted
        /\ r \in transmitted

\* ----------------------------------------------------- dispatcher: claims

\* The tasks that hold a slot of the semaphore, and those whose run_request
\* has ended.
Holding == {r \in LineNumbers : task[r].pc \in {"acquired", "running"}}
Executing == {r \in LineNumbers : task[r].pc = "running"}
Ended == {r \in LineNumbers : task[r].pc \in {"done", "failed"}}

\* C6: every non-empty line, whatever it holds, has exactly one response once
\* its task has ended, and never more than one before.
C6_ExactlyOneResponse ==
    \A r \in LineNumbers :
        /\ resp_count[r] <= 1
        /\ r \in Ended => resp_count[r] = 1

\* C7: the semaphore's counter always equals the ceiling less the tasks
\* holding a slot, every task releases once, when it ends, whether
\* process_request returned or raised, and every accepted request gets its slot
\* and runs to its end: from some point on no task is left unstarted, waiting
\* or running.
C7_NoDeadlockNoLoss ==
    /\ [](/\ sem_value = SemaphoreLimit - Cardinality(Holding)
          /\ \A r \in LineNumbers : releases[r] = IF r \in Ended THEN 1 ELSE 0)
    /\ <>[](\A r \in LineNumbers : task[r].pc \in {"none", "done", "failed"})

\* C7 witness: with every slot taken a request had to wait, and the release
\* of a finished request has handed it the slot.
C7_Witness ==
    \E r, q \in LineNumbers :
        /\ task[r].pc = "acquired"
        /\ q \in Ended /\ releases[q] = 1
        /\ Cardinality(Holding) = SemaphoreLimit

\* C8: never more tasks inside process_request than the ceiling, and every
\* accepted task that holds no slot and has not ended is still to start or is
\* queued on the semaphore, which then has no free slot.
C8_ConcurrencyCeiling ==
    /\ Cardinality(Executing) <= SemaphoreLimit
    /\ Cardinality(Holding) <= SemaphoreLimit
    /\ \A r \in in_flight \ Holding : task[r].pc \in {"created", "waiting"}
    /\ \A r \in LineNumbers :
          task[r].pc = "waiting" <=> \E i \in 1..Len(sem_waiters) : sem_waiters[i] = r
    /\ sem_waiters # <<>> => sem_value = 0

\* C8 witness: as many operations running as the ceiling allows, one more
\* request waiting.
C8_Witness ==
    /\ Cardinality(Executing) = SemaphoreLimit
    /\ \E r \in LineNumbers : task[r].pc = "waiting"

\* C9: a line that is not JSON gets exactly one response, with id null and
\* code -32700, its task ends and gives its slot back, and every JSON object on
\* a later line whose task has ended was answered once.
C9_ParseErrorAnswered ==
    \A r \in LineNumbers :
        form_of[r] = "garbage" =>
            /\ task[r].pc = "done" /\ resp_count[r] = 1 /\ releases[r] = 1
            /\ r \notin in_flight
            /\ rpc_step.req = r => rpc_step.written = <<Response(NullId, ParseError)>>
            /\ sem_value = SemaphoreLimit - Cardinality(Holding)
            /\ \A q \in LineNumbers :
                  (q > r /\ form_of[q] = "object" /\ q \in Ended) => resp_count[q] = 1

\* C9 witness: a request on a line after an unparsable one was accepted and
\* answered.
C9_Witness ==
    \E r, q \in LineNumbers :
        /\ r < q
        /\ form_of[r] = "garbage" /\ resp_count[r] = 1
        /\ form_of[q] = "object" /\ task[q].pc = "done" /\ resp_count[q] = 1

\* C10: a request whose method is none of the eight recognized ones is
\* answered, in the step that parses it, with one error -32601 carrying its
\* id; no service operation is invoked for it (the dispatcher touches session
\* state through service operations only).
C10_MethodNotFound ==
    (rpc_step.line.form = "object" /\ rpc_step.line.method \notin
        {"login", "verify_code", "connect_with_session", "disconnect", "get_dialogs",
         "fetch_messages", "send_message", "ping"}) =>
        /\ rpc_step.written = <<Response(rpc_step.line.id, MethodNotFound)>>
        /\ ~rpc_step.called
        /\ op_calls[rpc_step.req] = 0
        /\ resp_count[rpc_step.req] = 1
        /\ task[rpc_step.req].pc = "done"

\* C10 witness: a request with an id and an unknown method was processed.
C10_Witness ==
    /\ rpc_step.line.form = "object"
    /\ rpc_step.line.method = "bogus"
    /\ rpc_step.line.id = "7"
    /\ rpc_step.written # <<>>

\* C11: an exception raised by a service operation is answered with one
\* error response carrying the request's id, code -32000 and the exception's
\* message; the task ends normally with its slot released, the read loop is
\* where it was, and every other request that has ended was answered.
C11_OperationFailureAnswered ==
    rpc_step.raised # NoException =>
        /\ rpc_step.written =
              <<ErrorResponse(rpc_step.line.id, InternalError, rpc_step.raised.message)>>
        /\ task[rpc_step.req].pc = "done"
        /\ resp_count[rpc_step.req] = 1
        /\ releases[rpc_step.req] = 1
        /\ rpc_step.req \notin in_flight
        /\ sem_value = SemaphoreLimit - Cardinality(Holding)
        /\ main_pc \in {"loop", "gather"}
        /\ \A q \in LineNumbers :
              (q \in Ended /\ form_of[q] = "object") => resp_count[q] = 1

\* An operation with request id 7 raised while another request was still
\* running its operation and an earlier one had been answered.
C11_Witness ==
    /\ rpc_step.raised # NoException
    /\ rpc_step.line.id = "7"
    /\ \E q \in LineNumbers : q # rpc_step.req /\ task[q].pc = "running"
    /\ \E q \in LineNumbers :
          q # rpc_step.req /\ task[q].pc = "done" /\ form_of[q] = "object"

\* ------------------------------------------------------- sessions: claims

\* An attempt of a reconnection sequence is under way for the account.
Reconnecting(a) == watch_task[a].pc \in {"sleep", "refresh"}

\* C12: once the reconnection of an account has failed max_attempts times and
\* written its terminal notification, the account has no Session and no
\* reconnection attempt is made for it any more (until a new Session is
\* established for it).
C12_ReconnectGivesUp ==
    \A a \in exhausted : clients[a] = NoHandle /\ ~Reconnecting(a)

\* C13: once an attempt has found the account unauthorized and reported
\* "Session expired", no reconnection attempt is started for the account any
\* more (until a new Session is established for it).
C13_UnauthorizedAbandons ==
    \A a \in expired : ~Reconnecting(a)

\* C14: register_handlers has run at most once on every handle.
C14_SubscribedOnce ==
    \A h \in Handles : subscribed[h] <= 1

\* The handles that are connected and have the event hook subscribed (every
\* handle of a run is made for the one account of Accounts).
LiveSubscribed == {h \in Handles : connected[h] /\ subscribed[h] >= 1}

\* C15: at no time are two connected, event-subscribed handles live for the
\* same account.
C15_OneSessionPerAccount ==
    Cardinality(LiveSubscribed) <= 1

\* disconnect has popped the Session of the account and has not yet popped
\* and cancelled its watch task (it is awaiting the cancelled refresh task).
DisconnectPending(a) ==
    \E c \in Calls : /\ call[c].op = "disconnect" /\ call[c].account = a
                     /\ call[c].pc = "await_refresh"

\* C16: the watch starts a reconnection sequence only if, when the disconnect
\* signal of its handle fires, that handle is the current Session of the
\* account; an attempt begins only for an account that has a Session; and an
\* attempt is under way only while the account has a Session or, begun
\* before, until a disconnect that has popped the Session cancels the watch.
C16_DisconnectNeverReconnects ==
    /\ [](\A a \in Accounts :
            Reconnecting(a) => (clients[a] # NoHandle \/ DisconnectPending(a)))
    /\ [][\A a \in Accounts :
            /\ (watch_task[a].pc = "waiting" /\ watch_task'[a].pc = "sleep") =>
                  (clients[a] # NoHandle /\ clients[a] = watch_task[a].client)
            /\ (watch_task'[a].pc = "sleep" /\ watch_task'[a] # watch_task[a]) =>
                  clients[a] # NoHandle]_vars

\* The disconnect signal fired after disconnect had popped the Session and
\* before it cancelled the watch: the watch found itself not current and ended.
C16_Witness ==
    \E a \in Accounts :
        /\ DisconnectPending(a)
        /\ clients[a] = NoHandle
        /\ watch_task[a].pc = "done"
        /\ ~connected[watch_task[a].client]

\* What disconnect does not touch on any path.
DisconnectFrame ==
    UNCHANGED <<pending_logins, account_settings, refresh_error_ts, subscribed,
                next_handle, now>>

\* C17: disconnect of an account that has a Session pops the Session, pops and
\* cancels the refresh task and the watch task, closes the handle, pops the
\* credential string and returns success; disconnect of an account that has
\* no Session (a second disconnect) returns {success: False} and changes
\* nothing.
C17_DisconnectIdempotent ==
    [][\A c \in Calls, a \in Accounts :
         /\ DisconnectCall(c, a) =>
               IF clients[a] = NoHandle
               THEN /\ session_step' = Returned("disconnect", a, "failure")
                    /\ UNCHANGED <<clients, session_strings, refresh_task, watch_task,
                                   handlers_registered, connected, call>>
                    /\ DisconnectFrame
               ELSE /\ clients'[a] = NoHandle
                    /\ refresh_task'[a] = NoRefreshTask
                    /\ call'[c].client = clients[a]
                    /\ call'[c].pc = "close" => watch_task'[a] = NoWatchTask
                    /\ session_step'.result # "failure"
         /\ (DisconnectRefreshAwaited(c) /\ call[c].account = a) =>
               /\ watch_task'[a] = NoWatchTask
               /\ call'[c].pc = "close"
         /\ (DisconnectClosed(c) /\ call[c].account = a) =>
               /\ ~connected'[call[c].client]
               /\ session_strings'[a] = NoHandle
               /\ a \notin handlers_registered'
               /\ session_step' = Returned("disconnect", a, "success")
               /\ call'[c] = NoCall
               /\ DisconnectFrame]_vars

\* A second disconnect has returned {success: False}: the account has no
\* Session and no credential string, and the handle its Session had is closed.
C17_Witness ==
    \E a \in Accounts, h \in Handles :
        /\ session_step = Returned("disconnect", a, "failure")
        /\ clients[a] = NoHandle
        /\ session_strings[a] = NoHandle
        /\ subscribed[h] >= 1 /\ ~connected[h]
        /\ watch_task[a] = NoWatchTask /\ refresh_task[a] = NoRefreshTask

\* C18: when verify_code returns success for an account, the account has a
\* Session, the credential string of that Session is captured, its
\* PendingLogin is removed, a policy-refresh task exists for it when a backend
\* is configured, a liveness-watch task is watching its Session, and the event
\* hook is subscribed on its handle.
C18_VerifyCodeEstablishes ==
    \A a \in Accounts :
        session_step = Returned("verify_code", a, "success") =>
            /\ clients[a] # NoHandle
            /\ session_strings[a] = clients[a]
            /\ pending_logins[a] = NoHandle
            /\ convex_url => refresh_task[a].pc \in {"loop", "post"}
            /\ watch_task[a].pc \notin {"none", "done"}
            /\ watch_task[a].client = clients[a]
            /\ subscribed[clients[a]] >= 1

\* C19: a verify_code whose sign_in fails with the second-factor error and
\* that came without a password returns {needs_2fa: True}, which is not a
\* failure; it creates no Session, starts no task, subscribes nothing, and
\* leaves the PendingLogin in place for a later verify_code with a password.
C19_NeedsSecondFactor ==
    [][\A c \in Calls, second \in {"ok", "error"} :
         VerifyCodeSignedIn(c, "2fa", FALSE, second) =>
             /\ session_step' = Returned("verify_code", call[c].account, "needs_2fa")
             /\ call'[c] = NoCall
             /\ UNCHANGED <<clients, session_strings, pending_logins, refresh_task,
                            watch_task, handlers_registered, subscribed, connected,
                            account_settings>>]_vars

\* verify_code has answered needs_2fa: the account has no Session and no task,
\* and its PendingLogin is still there, its handle connected.
C19_Witness ==
    \E a \in Accounts :
        /\ session_step = Returned("verify_code", a, "needs_2fa")
        /\ pending_logins[a] # NoHandle
        /\ connected[pending_logins[a]]
        /\ clients[a] = NoHandle
        /\ refresh_task[a] = NoRefreshTask /\ watch_task[a] = NoWatchTask

\* A step in which a call of _refresh_account_settings for account a ends with
\* outcome: in the refresh task or in a reconnection attempt.
RefreshEnds(a, outcome) ==
    RefreshTaskResponse(a, outcome) \/ ReconnectRefreshed(a, outcome)

\* C20: a refresh that fails leaves the policy of the account as it was, and
\* writes its error notification only when the last one for the account was
\* written at least 60 s before (so no two fall within 60 s of each other);
\* a refresh that succeeds replaces the policy with the value returned and
\* writes no error.  The time of the last error notification changes in no
\* other step.
C20_RefreshFrame ==
    /\ [][\A a \in Accounts, outcome \in RefreshOutcomes :
            RefreshEnds(a, outcome) =>
                /\ \A b \in Accounts \ {a} :
                       /\ account_settings'[b] = account_settings[b]
                       /\ refresh_error_ts'[b] = refresh_error_ts[b]
                /\ IF outcome \in Policies
                   THEN /\ account_settings'[a] = outcome
                        /\ session_step'.notified = <<>>
                   ELSE account_settings'[a] = account_settings[a]
                /\ IF session_step'.notified # <<>>
                   THEN /\ session_step'.account = a
                        /\ Len(session_step'.notified) = 1
                        /\ now - refresh_error_ts[a] >= RefreshErrorWindow
                        /\ refresh_error_ts'[a] = now
                   ELSE refresh_error_ts'[a] = refresh_error_ts[a]]_vars
    /\ [][refresh_error_ts' # refresh_error_ts =>
            \E a \in Accounts, outcome \in RefreshOutcomes : RefreshEnds(a, outcome)]_vars

\* A refresh has failed for an account whose policy had been loaded: the
\* policy is still there, and the error was reported, at least 60 s after the
\* start.
C20_Witness ==
    \E a \in Accounts :
        /\ session_step.op = "refresh" /\ session_step.account = a
        /\ session_step.notified # <<>>
        /\ account_settings[a] \in Policies
        /\ refresh_error_ts[a] = now /\ now >= RefreshErrorWindow

\* ----------------------------------------------------- event filter: claims

\* The filters in force when the latest event arrived.
Filters == get_account_message_filters(settings)

Enqueued == filter_step.enqueued

\* The policy named in the specification: only saveMessages and
\* saveFromPrivate true.
PrivateOnly ==
    /\ Filters.saveMessages /\ Filters.saveFromPrivate
    /\ ~Filters.saveFromGroups /\ ~Filters.saveFromChannels /\ ~Filters.saveFromBots

\* C22: whatever the flags and the event, nothing is enqueued when
\* saveMessages is false, a group event is enqueued only if saveFromGroups is
\* true and a broadcast-channel event only if saveFromChannels is true; with
\* only saveMessages and saveFromPrivate true a private message with no bot
\* involved is enqueued, a group message is not and a private message from a
\* bot is not.
C22_EventFilter ==
    LET event == filter_step.event
    IN  /\ ~Filters.saveMessages => ~Enqueued
        /\ (Enqueued /\ event.kind.is_group) => Filters.saveFromGroups
        /\ (Enqueued /\ event.kind.is_channel /\ ~event.kind.is_group) =>
               Filters.saveFromChannels
        /\ PrivateOnly =>
               /\ (event.kind.is_private /\ ~is_bot(event)) => Enqueued
               /\ event.kind.is_group => ~Enqueued
               /\ (event.kind.is_private /\ event.sender = "BotUser") => ~Enqueued

\* With only saveMessages and saveFromPrivate true, a private message from a
\* person has been enqueued.
C22_Witness ==
    /\ PrivateOnly
    /\ filter_step.event.kind.is_private
    /\ filter_step.event.chat = "User" /\ filter_step.event.sender = "User"
    /\ ~filter_step.event.via_bot
    /\ Enqueued

\* C23: a private-chat event is enqueued exactly when it passes the strict
\* filter on its resolved bot flag: with saveMessages true, bot content is
\* enqueued iff saveFromBots is true and non-bot content iff saveFromPrivate
\* is true.
C23_StrictPrivateFilter ==
    LET event == filter_step.event
    IN  (event.kind.is_private /\ Filters.saveMessages) =>
            (Enqueued <=> IF is_bot(event) THEN Filters.saveFromBots
                          ELSE Filters.saveFromPrivate)

\* ------------------------------------------------ sessions: effective policy

\* The dicts the two policies of the session runs stand for: one with every
\* flag true, one that only switches saveMessages off.
PolicyDict(policy) ==
    IF policy = NoPolicy THEN EmptySettings
    ELSE IF policy = "policy1" THEN [k \in Flags |-> "True"]
    ELSE [EmptySettings EXCEPT !["saveMessages"] = "False"]

\* A step in which verify_code or connect_with_session in slot c ends with a
\* policy load that failed or returned nothing.
EstablishedWithoutPolicy(c) ==
    \/ \E outcome \in RefreshOutcomes \ Policies :
          VerifyCodeRefreshed(c, outcome) \/ ConnectWithSessionRefreshed(c, outcome)
    \/ /\ ~convex_url
       /\ call[c].pc \in {"sign_in", "connect"}
       /\ session_step'.result = "success"

\* C21: when a Session is established and the policy load fails or returns
\* nothing, the filters in force for the account are the defaults, whatever
\* connects and disconnects of the account came before.
C21_DefaultsOnFailedLoad ==
    [][\A c \in Calls :
         EstablishedWithoutPolicy(c) =>
             get_account_message_filters(PolicyDict(account_settings'[call[c].account]))
                 = DefaultFilters]_vars

\* ------------------------------------------------------- delivery: claims

\* The responses with a 2xx status among HttpOutcomes.
Success2xx == {"200", "204"}

\* The error notifications among the notifications of a step.
Errors(notes) == SelectSeq(notes, LAMBDA n : SubSeq(n, 1, 6) = "error:")

\* C24: a delivery makes at most 3 POSTs, tries again only after a 5xx
\* response or a timeout, and then ends; when it ends without a 2xx response
\* it writes exactly one error notification and the payload goes back neither
\* to the queue nor to the store; when it ends with a 2xx response it writes
\* no error notification.
C24_DeliveryRetries ==
    /\ [](\A w \in Workers : sync_worker[w].attempt + 1 <= 3)
    /\ [][\A w \in Workers, outcome \in HttpOutcomes :
            WorkerResponse(w, outcome) =>
                IF sync_worker'[w].pc = "post"
                THEN /\ outcome \in ServerErrors \cup {"timeout"}
                     /\ sync_worker'[w].attempt = sync_worker[w].attempt + 1
                     /\ Errors(notified') = <<>>
                ELSE /\ sync_worker'[w].pc = "get"
                     /\ UNCHANGED <<sync_queue, pq_rows>>
                     /\ IF outcome \in Success2xx
                        THEN Errors(notified') = <<>>
                        ELSE Len(Errors(notified')) = 1]_vars

\* ------------------------------------------------------- shutdown: claims

\* C25: once shutdown has completed, every Session that was in self.clients
\* when it began has had its handle disconnected and is out of the map, and no
\* policy-refresh task and no liveness-watch task is running: none is left in
\* the dicts and none was dropped from them while running.
C25_ShutdownDisconnectsAll ==
    main_pc = "closed" =>
        /\ \A a \in Accounts :
               shutdown_sessions[a] # NoHandle =>
                   /\ ~connected[shutdown_sessions[a]]
                   /\ clients[a] = NoHandle
        /\ \A a \in Accounts : clients[a] = NoHandle
        /\ RefreshRunning(refresh_task) = {} /\ WatchRunning(watch_task) = {}
        /\ orphans = {}

\* Shutdown has completed in a run that had a Session when it began, one whose
\* credential string the service still held.
C25_Witness ==
    /\ main_pc = "closed"
    /\ \E a \in Accounts :
          /\ shutdown_sessions[a] # NoHandle
          /\ ~connected[shutdown_sessions[a]]
          /\ subscribed[shutdown_sessions[a]] >= 1
    /\ convex_url

\* ----------------------------------------------------- output channel: claims

\* The lines on the queue, without the None of close.
Queued == SelectSeq(writer_queue, LAMBDA l : l # NoneLine)

\* C26: when the output channel has been shut down and the stream closed,
\* every line that write_line accepted has been written to the stream, in the
\* order of acceptance: none is left in the buffer or on the queue.
C26_ShutdownFlushes ==
    close_pc = "exited" =>
        /\ stdout = accepted
        /\ buffer = <<>> /\ Queued = <<>>

\* C27: write_line never waits: it ends within its one step whatever the
\* state of the queue; with room the line goes to the end of the queue, and
\* what is written is, at every moment, the accepted lines in the order of
\* acceptance, the rest of them waiting in the buffer and on the queue; with
\* the queue full the line is dropped and the queue stays as it was.
C27_WriteNeverBlocks ==
    /\ [](close_pc = "open" /\ next_line <= MaxOutLines => ENABLED WriteLine)
    /\ [](accepted = stdout \o buffer \o Queued)
    /\ [][WriteLine =>
            /\ next_line' = next_line + 1
            /\ IF Len(writer_queue) < WriterQueueMaxSize
               THEN /\ writer_queue' = Append(writer_queue, next_line)
                    /\ accepted' = Append(accepted, next_line)
               ELSE /\ writer_queue' = writer_queue
                    /\ accepted' = accepted
                    /\ next_line \in dropped'
            /\ UNCHANGED <<stdout, buffer>>]_vars

\* A line was dropped on a full queue, and every line accepted before and
\* after it has been written, in order.
C27_Witness ==
    /\ dropped # {}
    /\ Len(accepted) >= 3
    /\ stdout = accepted
    /\ \E i \in 1..Len(accepted) : \E d \in dropped : accepted[i] > d

\* ------------------------------------------------- claims: pipeline shutdown

\* The drain workers that have returned.
WorkersReturned == {w \in Workers : sync_worker[w].pc = "exit"}

\* The sentinels shutdown has put so far.
SentinelsPut == Cardinality(WorkerTasks) - sentinels_left

\* A step in which worker w returns.
Returns(w) == sync_worker[w].pc # "exit" /\ sync_worker'[w].pc = "exit"

\* C29: on shutdown one sentinel per drain worker is put on the memory queue
\* (each sentinel put is on the queue or was taken by a worker that returned,
\* and all are put when shutdown waits for the workers); a worker returns
\* only by taking one sentinel from the head of the queue and takes nothing
\* after it; no step takes a sentinel without a worker returning; and
\* shutdown, once begun, comes to its end, whatever the queue held when it
\* began (full included), with every worker returned and no sentinel left.
C29_SentinelPerWorker ==
    /\ [](main_pc \in {"put_sentinel", "gather_workers"} =>
             /\ SentinelsPut = Sentinels(sync_queue) + Cardinality(WorkersReturned)
             /\ main_pc = "gather_workers" => sentinels_left = 0)
    /\ [][\A w \in Workers :
             /\ Returns(w) => /\ sync_queue # <<>> /\ Head(sync_queue) = NoneItem
                              /\ sync_queue' = Tail(sync_queue)
                              /\ \A v \in Workers \ {w} : ~Returns(v)
             /\ sync_worker[w].pc = "exit" => sync_worker'[w].pc \in {"exit", "none"}]_vars
    /\ [][Sentinels(sync_queue') < Sentinels(sync_queue) =>
             \E w \in Workers : Returns(w)]_vars
    /\ [](main_pc = "closed" => /\ WorkersRunning = {}
                                /\ Sentinels(sync_queue) = 0
                                /\ sentinels_left = 0)
    /\ (main_pc # "loop") ~> (main_pc = "closed")

\* Shutdown began with the memory queue full and a delivery in progress: no
\* sentinel went in without a wait.
C29_Witness ==
    /\ main_pc = "put_sentinel"
    /\ sentinels_left = SyncWorkerCount
    /\ QueueFull(sync_queue)
    /\ \E w \in Workers : sync_worker[w].pc = "post"

\* ----------------------------------------------------- claims: lazy start

\* A step that is a call of enqueue_sync_message.
Enqueues == next_payload' = next_payload + 1

\* A step that creates drain workers, and one that creates the
\* overflow-drain loop.
StartsWorkers == \E w \in Workers : sync_worker[w].pc = "none" /\ sync_worker'[w].pc # "none"
StartsDrainLoop == ~pq_worker_task /\ pq_worker_task'

\* C28, as it holds: drain workers and the overflow-drain loop are created
\* only by an enqueue with an endpoint configured, all four workers and the
\* loop together and only when there is no worker task; an enqueue that finds
\* worker tasks leaves them and the loop as they are; the worker task set
\* has 0 or 4 members in every state, and until shutdown begins 0 or 4 of
\* them are running.  With no endpoint configured there is never a queue, a
\* worker, a loop or a stored entry, and enqueue returns False.
C28_LazyStartOnce ==
    /\ [](Cardinality(WorkerTasks) \in {0, SyncWorkerCount})
    /\ [](main_pc = "loop" => Cardinality(WorkersRunning) \in {0, SyncWorkerCount})
    /\ [][(StartsWorkers \/ StartsDrainLoop) =>
             /\ Enqueues /\ convex_url
             /\ WorkerTasks = {} /\ ~pq_worker_task
             /\ WorkersRunning' = Workers /\ pq_worker_task']_vars
    /\ [][(Enqueues /\ WorkerTasks # {}) =>
             /\ sync_worker' = sync_worker
             /\ pq_worker_task' = pq_worker_task]_vars
    /\ [](~convex_url => /\ ~sync_queue_made /\ WorkerTasks = {} /\ ~pq_worker_task
                         /\ sync_queue = <<>> /\ pq_rows = <<>> /\ stored = {})
    /\ [][(Enqueues /\ ~convex_url) => enqueue_ret'[next_payload] = "False"]_vars

\* Several enqueues with an endpoint configured: the workers are running, one
\* of them is delivering, and the latest payload went to the Overflow Store.
C28_Witness ==
    /\ convex_url
    /\ main_pc = "loop"
    /\ next_payload > 2
    /\ WorkersRunning = Workers
    /\ pq_worker_task
    /\ pq_rows # <<>>

\* C28, as stated: in every reachable state 0 or 4 drain workers are running.
C28_RunningWorkersZeroOrFour ==
    Cardinality(WorkersRunning) \in {0, SyncWorkerCount}

\* ------------------------------------------- claims: credential of a Session

\* C30: every account with a Session in the session map has its credential
\* string stored.
C30_SessionHasCredential ==
    \A a \in Accounts : clients[a] # NoHandle => session_strings[a] # NoHandle

\* ------------------------------------------------ claims: tasks of a Session

\* A request for account a is in flight.
InFlight(a) == \E c \in Calls : call[c] # NoCall /\ call[c].account = a

\* C31: an account with a Session in the session map and no request in
\* flight has a running liveness-watch task bound to the handle of that
\* Session and, with a backend configured, a running policy-refresh task.
C31_TasksFollowSession ==
    \A a \in Accounts :
        (clients[a] # NoHandle /\ ~InFlight(a)) =>
            /\ a \in WatchRunning(watch_task)
            /\ watch_task[a].client = clients[a]
            /\ convex_url => a \in RefreshRunning(refresh_task)

\* --------------------------------------------- claims: payloads at shutdown

\* A step of the overflow-drain loop that moves an entry of the Overflow
\* Store onto the memory queue.
Readmits == readmitted' # readmitted

\* C32: the overflow-drain loop re-admits an entry only where a worker will
\* still take it, in front of every sentinel and with a worker running; and
\* when shutdown has ended no payload is left on the memory queue.
C32_NothingStranded ==
    /\ [][Readmits => (Sentinels(sync_queue) = 0 /\ WorkersRunning # {})]_vars
    /\ [](main_pc = "closed" => sync_queue = <<>>)

====
